---- MODULE Spec2Model ----
(***************************************************************************)
(* The dispatch pipeline of ts-typed-api: for one request to one           *)
(* registered route, the upload stage, the middleware chain, input         *)
(* validation, the handler with its respond capability, and the error      *)
(* paths, for the Express adapter (registerRouteHandlers) and the Hono     *)
(* adapter (registerHonoRouteHandlers).                                    *)
(***************************************************************************)
EXTENDS Integers, Sequences, FiniteSets, TLC

VARIABLES
    persistentHeaders, \* this.persistentHeaders of the client
    calls,         \* how many calls the client has made, the current one included
    adapter,       \* "express" | "hono": which adapter registered the route
    route,         \* the route definition (immutable after construction)
    inputMap,      \* the map the route's author handed to CreateResponses
    nmw,           \* number of user middlewares registered for the route
    req,           \* the inbound request: params, query, body, files
    pc,            \* position of the request in the pipeline
    mwIdx,         \* index of the middleware that is running or runs next
    invoked,       \* user code invoked so far, in order: i for middleware i, Handler
    wire,          \* responses written to the transport, in order
    honoResponse,  \* (c as any).__response of the Hono adapter
    delivered,     \* what the handler received as [params, query, body]
    thrown,        \* exceptions thrown by user code: [by, kind, msg]
    returned,      \* middlewares that returned without having called next
    escaped,       \* an exception left the registered closure
    mws,           \* the middlewares handed to RegisterHandlers, in array order
    ctx,           \* the ctx property of each request's own request object
    received,          \* what each invocation of `invoked` received, in the same order
    post,          \* per middleware: where it is after its next() call returned
    other,         \* a second request in flight on the same route
    notified,      \* the onResponse callbacks called so far, with the status each received
    call,          \* ApiClient: persistent headers and the callData of one callApi
    request,       \* ApiClient: the url and options handed to adapter.request
    adapterResponse, \* ApiClient: what adapter.request resolved or rejected with
    handlerCalls,  \* ApiClient: the caller's handlers invoked, with their payloads
    result         \* ApiClient: what callApi returned or threw

vars == <<adapter, route, inputMap, nmw, req, pc, mwIdx, invoked, wire, honoResponse,
          delivered, thrown, returned, escaped, mws, ctx, received, post, other, notified,
          call, request, adapterResponse, handlerCalls, result, persistentHeaders, calls>>

serverVars == <<adapter, route, inputMap, nmw, req, mwIdx, invoked, wire, honoResponse,
                delivered, thrown, returned, escaped, mws, ctx, received, post, other,
                notified>>

-----------------------------------------------------------------------------
(* Bounds of the model *)

MaxMw == 2        \* middlewares registered on a route
MaxFiles == 1     \* files in one multipart request
MaxCalls == 2     \* calls made through one client

-----------------------------------------------------------------------------
(* Values, objects and the schema engine (zod) as the code uses it *)

Fields == <<"a", "b">>
FieldSet == {"a", "b"}

Undefined == [t |-> "undefined", v |-> ""]
Str(s) == [t |-> "string", v |-> s]
Num(s) == [t |-> "number", v |-> s]
Bool(s) == [t |-> "boolean", v |-> s]

Obj(va, vb) == [f \in FieldSet |-> IF f = "a" THEN va ELSE vb]
EmptyObj == Obj(Undefined, Undefined)

NoShape == [f \in FieldSet |-> "none"]
NoSchema == [present |-> FALSE, strict |-> FALSE, array |-> FALSE, shape |-> NoShape]
\* z.object({ a: <ta> }): unknown keys are stripped unless .strict() was applied
ZodObject(ta) == [present |-> TRUE, strict |-> FALSE, array |-> FALSE,
                  shape |-> [f \in FieldSet |-> IF f = "a" THEN ta ELSE "none"]]
\* z.array(z.object({ a: <ta> })): shape is the shape of the elements
ZodArray(ta) == [ZodObject(ta) EXCEPT !.array = TRUE]

Msg(text, args) == [text |-> text, args |-> args]

HasKeyIssue(shape, obj, f) ==
    /\ shape[f] # "none"
    /\ obj[f].t # shape[f]

KeyIssue(shape, obj, f) ==
    [code |-> "invalid_type", path |-> <<f>>,
     message |-> IF obj[f].t = "undefined"
                 THEN Msg("Required", {})
                 ELSE Msg("Expected, received", {shape[f], obj[f].t})]

RECURSIVE KeyIssues(_, _, _)
KeyIssues(shape, obj, keys) ==
    IF keys = <<>> THEN <<>>
    ELSE (IF HasKeyIssue(shape, obj, Head(keys))
          THEN <<KeyIssue(shape, obj, Head(keys))>> ELSE <<>>)
         \o KeyIssues(shape, obj, Tail(keys))

ExtraKeys(schema, obj) ==
    {f \in FieldSet : schema.shape[f] = "none" /\ obj[f].t # "undefined"}

\* The issues of schema.parse(obj) / schema.safeParse(obj) for an object schema
ZodIssues(schema, obj) ==
    KeyIssues(schema.shape, obj, Fields)
    \o (IF schema.strict /\ ExtraKeys(schema, obj) # {}
        THEN <<[code |-> "unrecognized_keys", path |-> <<>>,
                message |-> Msg("Unrecognized key(s) in object", ExtraKeys(schema, obj))]>>
        ELSE <<>>)

\* The value a successful parse returns: unknown keys are stripped
ZodOutput(schema, obj) ==
    [f \in FieldSet |-> IF schema.shape[f] = "none" THEN Undefined ELSE obj[f]]

-----------------------------------------------------------------------------
(* definition.ts: strictness, response envelopes *)

\* A schema left as the caller wrote it
makeSchemaLoose(schema) == schema

\* Only a schema that has a strict() method, a ZodObject, is replaced
makeSchemaStrict(schema) ==
    IF schema.array THEN schema ELSE [schema EXCEPT !.strict = TRUE]

\* Envelope values: a field of a JSON body is absent, null, an object, a list
\* of error details or an array of objects
Absent == [k |-> "absent", o |-> EmptyObj, l |-> <<>>]
NullVal == [k |-> "null", o |-> EmptyObj, l |-> <<>>]
ObjVal(o) == [k |-> "obj", o |-> o, l |-> <<>>]
ListVal(l) == [k |-> "list", o |-> EmptyObj, l |-> l]
ObjsVal(l) == [k |-> "objs", o |-> EmptyObj, l |-> l]

\* A body: a JSON object with its data and error fields, or a non-JSON body
JsonBody(d, e) == [data |-> d, error |-> e, raw |-> "json"]
RawBody(r) == [data |-> Absent, error |-> Absent, raw |-> r]
NoBody == RawBody("none")

\* A field of a body is populated when it is present and not null
Populated(v) == v.k \notin {"absent", "null"}

ErrorDetail(field, type, message) == [field |-> field, type |-> type, message |-> message]
GeneralError(text) == ErrorDetail("general", "general", Msg(text, {}))

\* z.object({ data: dataSchema }): the wrapper itself is not strict
createSuccessUnifiedResponseSchema(dataSchema) ==
    [envelope |-> "success", any |-> FALSE, schema |-> dataSchema, strict |-> FALSE]

\* z.object({ error: unifiedErrorSchema.refine(val => val !== null) })
errorUnifiedResponseSchema ==
    [envelope |-> "error", any |-> FALSE, schema |-> NoSchema, strict |-> FALSE]

\* z.object({ data: z.any() }).strict() for a TsTypeMarker
markerResponseSchema ==
    [envelope |-> "success", any |-> TRUE, schema |-> NoSchema, strict |-> TRUE]

\* An input of CreateResponses: a zod schema or a type marker
ZodInput(s) == [marker |-> FALSE, schema |-> s]
MarkerInput == [marker |-> TRUE, schema |-> NoSchema]

\* A CreateResponses that would keep a 422 entry of its input
CreateResponsesKeeping422(schemas) ==
    [s \in (DOMAIN schemas) \cup {422} |->
        IF s \notin DOMAIN schemas THEN errorUnifiedResponseSchema
        ELSE IF schemas[s].marker THEN markerResponseSchema
        ELSE createSuccessUnifiedResponseSchema(makeSchemaStrict(schemas[s].schema))]

CreateResponses(schemas) ==
    [s \in (DOMAIN schemas) \cup {422} |->
        IF s = 422 THEN errorUnifiedResponseSchema
        ELSE IF schemas[s].marker THEN markerResponseSchema
        ELSE createSuccessUnifiedResponseSchema(makeSchemaStrict(schemas[s].schema))]

\* responseSchema.safeParse(body): [success, data]
safeParse(rs, body) ==
    IF rs.envelope = "success"
    THEN [success |-> /\ \/ rs.any
                         \/ /\ ~rs.schema.array
                            /\ body.data.k = "obj"
                            /\ ZodIssues(rs.schema, body.data.o) = <<>>
                         \/ /\ rs.schema.array
                            /\ body.data.k = "objs"
                            /\ \A i \in 1..Len(body.data.l) :
                                   ZodIssues(rs.schema, body.data.l[i]) = <<>>
                      /\ ~rs.strict \/ body.error.k = "absent",
          data |-> JsonBody(IF rs.any THEN body.data
                            ELSE IF rs.schema.array /\ body.data.k # "objs" THEN body.data
                            ELSE IF rs.schema.array
                            THEN ObjsVal([i \in 1..Len(body.data.l) |->
                                            ZodOutput(rs.schema, body.data.l[i])])
                            ELSE ObjVal(ZodOutput(rs.schema, body.data.o)), Absent)]
    ELSE [success |-> body.error.k = "list",
          data |-> JsonBody(Absent, body.error)]

CreateApiDefinition(r) ==
    [r EXCEPT !.params = IF r.params.present THEN makeSchemaStrict(r.params) ELSE r.params,
              !.query = IF r.query.present THEN makeSchemaStrict(r.query) ELSE r.query,
              !.body = IF r.body.present THEN makeSchemaStrict(r.body) ELSE r.body]

-----------------------------------------------------------------------------
(* handler.ts: coercion pre-pass, respond, the catch block *)

NumericStrings == {"42"}

\* One field of preprocessParams / preprocessQueryParams
Coerce(value, declared) ==
    IF value.t = "string" /\ declared = "number" /\ value.v \in NumericStrings
        THEN Num(value.v)
    ELSE IF value.t = "string" /\ declared = "boolean" /\ value.v \in {"true", "false"}
        THEN Bool(value.v)
    ELSE value

preprocessParams(params, paramsSchema) ==
    IF ~paramsSchema.present THEN params
    ELSE [f \in FieldSet |-> Coerce(params[f], paramsSchema.shape[f])]

\* A query object handed to the schema as it arrived
queryAsReceived(query, querySchema) == query

preprocessQueryParams(query, querySchema) ==
    IF ~querySchema.present THEN query
    ELSE [f \in FieldSet |-> Coerce(query[f], querySchema.shape[f])]

Response(status, body) == [status |-> status, body |-> body]

\* The envelope respond builds before validating it
Envelope(status, data) ==
    IF status = 422 THEN JsonBody(NullVal, data) ELSE JsonBody(data, NullVal)

\* A respond that would send whatever status it is given
respondAnyStatus(responses, status, dataForResponse) ==
    Response(status, Envelope(status, dataForResponse))

\* typedExpressRes.respond of the Express request closure
respond(responses, status, dataForResponse) ==
    IF status \notin DOMAIN responses
    THEN Response(500, JsonBody(Absent, ListVal(<<GeneralError(
             "Internal server error: Undefined response schema for status.")>>)))
    ELSE LET validationResult == safeParse(responses[status], Envelope(status, dataForResponse))
         IN IF validationResult.success
            THEN Response(status, validationResult.data)
            ELSE Response(500, JsonBody(Absent, ListVal(<<GeneralError(
                     "Internal server error: Constructed response failed validation.")>>)))

\* createRespondFunction: res.respond as the Express middleware wrapper installs it
createRespondFunction(responses, status, data) ==
    IF status \notin DOMAIN responses
    THEN Response(500, JsonBody(NullVal, ListVal(<<GeneralError(
             "Internal server error: Undefined response schema for status.")>>)))
    ELSE LET validationResult == safeParse(responses[status], Envelope(status, data))
         IN IF validationResult.success
            THEN (IF status = 204 THEN Response(status, JsonBody(NullVal, Absent))
                  ELSE Response(status, validationResult.data))
            ELSE Response(500, JsonBody(NullVal, ListVal(<<GeneralError(
                     "Internal server error: Constructed response failed validation.")>>)))

\* (c as any).respond of the Hono request closure
honoRespond(responses, status, data) ==
    IF status \notin DOMAIN responses
    THEN Response(500, JsonBody(NullVal, ListVal(<<GeneralError(
             "Internal server error: Undefined response schema for status.")>>)))
    ELSE LET validationResult == safeParse(responses[status], Envelope(status, data))
         IN IF validationResult.success
            THEN Response(status, validationResult.data)
            ELSE Response(500, JsonBody(NullVal, ListVal(<<GeneralError(
                     "Internal server error: Constructed response failed validation.")>>)))

\* c.json(body, status) of Hono builds new Response(text, { status }): for a
\* null-body status the constructor of a Fetch-conforming runtime throws a
\* TypeError, a lenient runtime builds the response and the body is dropped
honoJson(r) ==
    IF r.status \in {204, 304}
    THEN {[threw |-> TRUE, response |-> r], [threw |-> FALSE, response |-> Response(r.status, NoBody)]}
    ELSE {[threw |-> FALSE, response |-> r]}

\* res.status(s).json(body) as Express sends it: a 204 or 304 carries no body
ExpressJson(r) ==
    IF r.status \in {204, 304} THEN Response(r.status, NoBody) ELSE r

\* Exceptions: a ZodError carries issues, an Error a message, anything else its value
Exc(kind, msg) ==
    [kind |-> kind, msg |-> msg,
     issues |-> IF kind = "ZodError"
                THEN <<[code |-> "custom", path |-> <<>>, message |-> Msg(msg, {})]>>
                ELSE <<>>]
ZodError(issues) == [kind |-> "ZodError", msg |-> "", issues |-> issues]

\* err.path.join('.') for the paths of this model, which have at most one segment
PathJoin(path) == IF path = <<>> THEN "" ELSE path[1]

errorType(path) ==
    LET pathZero == IF path = <<>> THEN "undefined" ELSE path[1]
    IN IF pathZero = "params" THEN "param"
       ELSE IF pathZero = "query" THEN "query"
       ELSE IF pathZero = "body" THEN "body"
       ELSE "general"

mapIssue(err) ==
    ErrorDetail(IF PathJoin(err.path) = "" THEN "request" ELSE PathJoin(err.path),
                errorType(err.path), err.message)

RECURSIVE mappedErrors(_)
mappedErrors(issues) ==
    IF issues = <<>> THEN <<>>
    ELSE <<mapIssue(Head(issues))>> \o mappedErrors(Tail(issues))

\* A catch block that would copy the exception's message into the body
catchBlockLeaking(responses, error) ==
    Response(500, JsonBody(Absent, ListVal(<<GeneralError(error.msg)>>)))

\* The catch block of expressMiddleware and of honoMiddleware
catchBlock(responses, error) ==
    IF error.kind = "ZodError"
    THEN LET errorResponseBody == JsonBody(NullVal, ListVal(mappedErrors(error.issues)))
         IN IF 422 \in DOMAIN responses
            THEN LET validationResult == safeParse(responses[422], errorResponseBody)
                 IN IF validationResult.success
                    THEN Response(422, validationResult.data)
                    ELSE Response(500, JsonBody(Absent, ListVal(<<GeneralError(
                        "Internal server error constructing validation error response.")>>)))
            ELSE Response(422, JsonBody(Absent, ListVal(mappedErrors(error.issues))))
    ELSE IF error.kind = "Error"
    THEN Response(500, JsonBody(Absent, ListVal(<<GeneralError("Internal server error")>>)))
    ELSE Response(500, JsonBody(Absent, ListVal(<<GeneralError("An unknown error occurred")>>)))

\* Methods whose body the adapter validates
expressBodyMethods == {"POST", "PUT"}
honoBodyMethods == {"POST", "PUT", "DELETE", "PATCH"}

\* The parsing prefix of expressMiddleware: [ok, issues, params, query, body]
expressParse(r, q) ==
    LET preprocessedParams == IF r.params.present THEN preprocessParams(q.params, r.params)
                              ELSE q.params
        preprocessedQuery == IF r.query.present THEN preprocessQueryParams(q.query, r.query)
                             ELSE q.query
        pIssues == IF r.params.present THEN ZodIssues(r.params, preprocessedParams) ELSE <<>>
        qIssues == IF r.query.present THEN ZodIssues(r.query, preprocessedQuery) ELSE <<>>
        parseBody == r.method \in expressBodyMethods /\ r.body.present
        bIssues == IF parseBody THEN ZodIssues(r.body, q.body) ELSE <<>>
        issues == IF pIssues # <<>> THEN pIssues
                  ELSE IF qIssues # <<>> THEN qIssues ELSE bIssues
    IN [ok |-> issues = <<>>, issues |-> issues,
        params |-> IF r.params.present THEN ZodOutput(r.params, preprocessedParams)
                   ELSE preprocessedParams,
        query |-> IF r.query.present THEN ZodOutput(r.query, preprocessedQuery)
                  ELSE preprocessedQuery,
        body |-> IF parseBody THEN ZodOutput(r.body, q.body) ELSE q.body]

\* The parsing prefix of honoMiddleware: params are parsed without a coercion pre-pass
honoParse(r, q) ==
    LET preprocessedQuery == IF r.query.present THEN preprocessQueryParams(q.query, r.query)
                             ELSE q.query
        pIssues == IF r.params.present THEN ZodIssues(r.params, q.params) ELSE <<>>
        qIssues == IF r.query.present THEN ZodIssues(r.query, preprocessedQuery) ELSE <<>>
        parseBody == r.method \in honoBodyMethods /\ r.body.present
        bIssues == IF parseBody THEN ZodIssues(r.body, q.body) ELSE <<>>
        issues == IF pIssues # <<>> THEN pIssues
                  ELSE IF qIssues # <<>> THEN qIssues ELSE bIssues
    IN [ok |-> issues = <<>>, issues |-> issues,
        params |-> IF r.params.present THEN ZodOutput(r.params, q.params) ELSE q.params,
        query |-> IF r.query.present THEN ZodOutput(r.query, preprocessedQuery)
                  ELSE preprocessedQuery,
        body |-> IF parseBody THEN ZodOutput(r.body, q.body)
                 ELSE IF r.method \in honoBodyMethods THEN q.body ELSE EmptyObj]

-----------------------------------------------------------------------------
(* The upload stage *)

NoUpload == [kind |-> "none", fields |-> <<>>]
\* One field of a FileUploadConfig; maxSize 0, maxCount 0 and ~hasMimes stand for
\* an option left undefined
FieldCfg(fieldName, maxSize, hasMimes, mimes, maxCount) ==
    [fieldName |-> fieldName, maxSize |-> maxSize, hasMimes |-> hasMimes,
     allowedMimeTypes |-> mimes, maxCount |-> maxCount]
UploadCfg(kind, fields) == [kind |-> kind, fields |-> fields]

File(fieldname, size, mimetype) == [fieldname |-> fieldname, size |-> size, mimetype |-> mimetype]

DefaultMaxFileSize == 10 * 1024 * 1024
DefaultMaxFiles == 10

Max(a, b) == IF a >= b THEN a ELSE b
OrDefault(n, d) == IF n = 0 THEN d ELSE n

RECURSIVE MaxOfSizes(_)
MaxOfSizes(fields) ==
    IF Len(fields) = 1 THEN OrDefault(fields[1].maxSize, DefaultMaxFileSize)
    ELSE Max(OrDefault(Head(fields).maxSize, DefaultMaxFileSize), MaxOfSizes(Tail(fields)))

\* limits.fileSize as createFileUploadMiddleware hands it to multer
multerFileSizeLimit(config) ==
    IF config.kind = "fields" THEN MaxOfSizes(config.fields)
    ELSE OrDefault(config.fields[1].maxSize, DefaultMaxFileSize)

FieldNames(config) == {config.fields[i].fieldName : i \in 1..Len(config.fields)}
CfgOf(config, name) ==
    config.fields[CHOOSE i \in 1..Len(config.fields) : config.fields[i].fieldName = name]

\* Files of the request up to the i-th that arrived under the i-th file's field name
CountSoFar(files, i) == Cardinality({j \in 1..i : files[j].fieldname = files[i].fieldname})

NoUploadError == [failed |-> FALSE, field |-> "", message |-> Msg("", {})]
UploadError(field, message) == [failed |-> TRUE, field |-> field, message |-> message]

\* fileFilter of createFileUploadMiddleware for one file
fileFilterRejects(config, file) ==
    IF config.kind = "fields"
    THEN /\ file.fieldname \in FieldNames(config)
         /\ CfgOf(config, file.fieldname).hasMimes
         /\ file.mimetype \notin CfgOf(config, file.fieldname).allowedMimeTypes
    ELSE /\ config.fields[1].hasMimes
         /\ file.mimetype \notin config.fields[1].allowedMimeTypes

\* What multer, configured by createFileUploadMiddleware, reports for the i-th file,
\* already mapped to the field and message of the 422
multerFileError(config, files, i) ==
    LET file == files[i]
        named == config.kind \in {"single", "array", "fields"}
        accepted == IF config.kind = "single" THEN 1
                    ELSE IF config.kind = "array" THEN OrDefault(config.fields[1].maxCount, DefaultMaxFiles)
                    ELSE IF file.fieldname \in FieldNames(config)
                         THEN OrDefault(CfgOf(config, file.fieldname).maxCount, 1)
                         ELSE 0
    IN IF config.kind = "array" /\ i > OrDefault(config.fields[1].maxCount, DefaultMaxFiles)
       THEN UploadError("file", Msg("Too many files uploaded", {}))
       ELSE IF named /\ (file.fieldname \notin FieldNames(config) \/ CountSoFar(files, i) > accepted)
       THEN UploadError(file.fieldname, Msg("Unexpected field", {file.fieldname}))
       ELSE IF fileFilterRejects(config, file)
       THEN UploadError("file", Msg("File type not allowed", {file.mimetype}))
       ELSE IF file.size > multerFileSizeLimit(config)
       THEN UploadError("file", Msg("File size exceeds the allowed limit", {}))
       ELSE NoUploadError

RECURSIVE FirstError(_, _, _)
FirstError(config, files, i) ==
    IF i > Len(files) THEN NoUploadError
    ELSE IF multerFileError(config, files, i).failed THEN multerFileError(config, files, i)
    ELSE FirstError(config, files, i + 1)

\* createFileUploadMiddleware: the error the wrapper receives from multer, if any
createFileUploadMiddleware(config, files) == FirstError(config, files, 1)

FilesOf(files, name) == SelectSeq(files, LAMBDA f : f.fieldname = name)

\* The size and MIME checks of createHonoFileUploadMiddleware for one file
honoFileErrors(cfg, file, label) ==
    IF cfg.maxSize # 0 /\ file.size > cfg.maxSize
    THEN <<UploadError(label, Msg("File size exceeds bytes", {ToString(cfg.maxSize)}))>>
    ELSE IF cfg.hasMimes /\ file.mimetype \notin cfg.allowedMimeTypes
    THEN <<UploadError(label, Msg("File type not allowed", {file.mimetype}))>>
    ELSE <<>>

RECURSIVE honoFilesErrors(_, _, _)
honoFilesErrors(cfg, fs, label) ==
    IF fs = <<>> THEN <<>>
    ELSE honoFileErrors(cfg, Head(fs), label) \o honoFilesErrors(cfg, Tail(fs), label)

\* An array of files for one field of a parseBody({ all: true }) result: a field
\* that holds one file is that file, not an array
honoArrayErrors(cfg, fs, label) ==
    IF Len(fs) < 2 THEN <<>>
    ELSE IF cfg.maxCount # 0 /\ Len(fs) > cfg.maxCount
    THEN <<UploadError(label, Msg("Maximum files allowed", {ToString(cfg.maxCount)}))>>
    ELSE honoFilesErrors(cfg, fs, label)

RECURSIVE honoFieldsErrors(_, _)
honoFieldsErrors(fields, files) ==
    IF fields = <<>> THEN <<>>
    ELSE honoArrayErrors(Head(fields), FilesOf(files, Head(fields).fieldName), Head(fields).fieldName)
         \o honoFieldsErrors(Tail(fields), files)

\* config.any: only the entries of the form that are a single File are checked
RECURSIVE honoAnyErrors(_, _, _)
honoAnyErrors(cfg, files, i) ==
    IF i > Len(files) THEN <<>>
    ELSE (IF Len(FilesOf(files, files[i].fieldname)) = 1
          THEN honoFileErrors(cfg, files[i], files[i].fieldname) ELSE <<>>)
         \o honoAnyErrors(cfg, files, i + 1)

createHonoFileUploadMiddleware(config, files) ==
    LET errs ==
        IF config.kind = "single"
        THEN LET fs == FilesOf(files, config.fields[1].fieldName)
             IN IF fs = <<>> THEN <<>> ELSE honoFileErrors(config.fields[1], fs[Len(fs)], "file")
        ELSE IF config.kind = "array"
        THEN honoArrayErrors(config.fields[1], FilesOf(files, config.fields[1].fieldName), "file")
        ELSE IF config.kind = "fields"
        THEN honoFieldsErrors(config.fields, files)
        ELSE honoAnyErrors(config.fields[1], files, 1)
    IN IF errs = <<>> THEN NoUploadError ELSE Head(errs)

\* An upload 422 that would carry a data object next to its error list
uploadErrorResponseWithData(e) ==
    Response(422, JsonBody(ObjVal(Obj(Str(e.field), Undefined)),
                           ListVal(<<ErrorDetail(e.field, "body", e.message)>>)))

\* The 422 both upload middlewares write
uploadErrorResponse(e) ==
    Response(422, JsonBody(NullVal, ListVal(<<ErrorDetail(e.field, "body", e.message)>>)))

-----------------------------------------------------------------------------
(* client.ts: ApiClient.callApi *)

\* Strings of paths are sequences of symbols: "/", ":", the letters of the
\* parameter names, and whole words where nothing can match inside them
\* A literal segment of route.path, and a :name placeholder
Lit(name) == <<name>>
Placeholder(name) == <<":">> \o name

\* The parameter names of this model, id and idx; id is a prefix of idx
IdParam == <<"i", "d">>
IdxParam == <<"i", "d", "x">>
ParamNames == {IdParam, IdxParam}

\* One entry of callData.params, which is a sequence in the order of its keys
Param(key, value) == [key |-> key, value |-> value]

\* s.indexOf(pat), counted from 1; 0 when pat does not occur
indexOf(s, pat) ==
    LET occurs(i) == i + Len(pat) - 1 <= Len(s) /\ SubSeq(s, i, i + Len(pat) - 1) = pat
    IN IF \E i \in 1..Len(s) : occurs(i)
       THEN CHOOSE i \in 1..Len(s) : occurs(i) /\ \A j \in 1..(i - 1) : ~occurs(j)
       ELSE 0

\* s.replace(pat, rep) with a string pattern: the first occurrence only
replace(s, pat, rep) ==
    LET i == indexOf(s, pat)
    IN IF i = 0 THEN s
       ELSE SubSeq(s, 1, i - 1) \o rep \o SubSeq(s, i + Len(pat), Len(s))

\* s.replace(/\/+/g, '/')
RECURSIVE collapseSlashes(_)
collapseSlashes(s) ==
    IF Len(s) < 2 THEN s
    ELSE IF s[1] = "/" /\ s[2] = "/" THEN collapseSlashes(Tail(s))
    ELSE <<s[1]>> \o collapseSlashes(Tail(s))

\* s.replace(/\/$/, '')
dropTrailingSlash(s) ==
    IF s # <<>> /\ s[Len(s)] = "/" THEN SubSeq(s, 1, Len(s) - 1) ELSE s

\* apiDefinition.prefix that is undefined or ''
NoPrefix == <<>>

\* registerRouteHandlers: the path a route is mounted at
fullPath(prefix, path) ==
    IF prefix # NoPrefix
    THEN collapseSlashes((IF prefix[1] = "/" THEN prefix ELSE <<"/">> \o prefix) \o path)
    ELSE path

\* The path part of getBaseUrlWithPrefix(); baseUrl is an origin, as
\* 'http://localhost:3001' is
getBaseUrlWithPrefix(prefix) ==
    IF prefix # NoPrefix
    THEN LET cleanPrefix == IF prefix[1] = "/" THEN prefix ELSE <<"/">> \o prefix
         IN dropTrailingSlash(cleanPrefix)
    ELSE <<>>

HeaderNames == {"Content-Type", "Authorization"}
Unset == "<unset>"

\* urlPath = urlPath.replace(`:${key}`, String(params[key])) for every key of
\* params, in the order of the keys, whose value is not undefined
RECURSIVE urlPath(_, _)
urlPath(path, params) ==
    IF params = <<>> THEN path
    ELSE LET p == Head(params)
         IN urlPath(IF p.value.t # "undefined"
                    THEN replace(path, <<":">> \o p.key, <<p.value.v>>)
                    ELSE path,
                    Tail(params))

\* The path of new URL(this.getBaseUrlWithPrefix() + urlPath)
requestUrl(prefix, path, params) == getBaseUrlWithPrefix(prefix) \o urlPath(path, params)

\* { ...this.persistentHeaders, 'Content-Type': 'application/json', ...callData.headers }
requestHeaders(persistent, headers) ==
    LET withPersistent == persistent
        withDefault == [withPersistent EXCEPT !["Content-Type"] = "application/json"]
    IN [h \in HeaderNames |-> IF headers[h] # Unset THEN headers[h] ELSE withDefault[h]]

NoCall == [prefix |-> NoPrefix, path |-> <<>>, params |-> <<>>,
           persistentHeaders |-> [h \in HeaderNames |-> Unset],
           headers |-> [h \in HeaderNames |-> Unset], handlers |-> {}]
NoRequest == [sent |-> FALSE, url |-> <<>>, headers |-> [h \in HeaderNames |-> Unset]]
HttpRequest(url, headers) == [sent |-> TRUE, url |-> url, headers |-> headers]

\* An HttpResponse of the adapter: status, content type, body
HttpResponse(status, body) ==
    [settled |-> "resolved", status |-> status,
     json |-> body.raw \in {"json", "badjson"}, body |-> body]
NoResponse == [settled |-> "pending", status |-> 0, json |-> FALSE, body |-> NoBody]
NetworkError == [settled |-> "rejected", status |-> 0, json |-> FALSE, body |-> NoBody]

\* Outcomes of callApi after the adapter resolved: a handler is invoked with a
\* payload, or callApi throws
Invoke(status, data, error) ==
    [kind |-> "handler", key |-> status, data |-> data, error |-> error, text |-> ""]
Throw(text) ==
    [kind |-> "throw", key |-> 0, data |-> Absent, error |-> Absent, text |-> text]

\* A client that would take every status for a declared one
anyStatusCode(responses) == 100..599

\* Object.keys(routeInfo.responses).map(Number)
definedStatusCodes(responses) == DOMAIN responses

NonJson422 == ListVal(<<GeneralError("Non-JSON error response for 422")>>)
HttpError422 == ListVal(<<GeneralError("HTTP error 422")>>)

\* callApi from the status check to the handler lookup
demultiplex(responses, handlers, response) ==
    IF response.status \notin definedStatusCodes(responses)
    THEN Throw("Received unhandled status code")
    ELSE IF response.status = 204
    THEN (IF 204 \in handlers THEN Invoke(204, Absent, Absent)
          ELSE Throw("handler is not a function"))
    ELSE IF response.json /\ response.body.raw = "badjson"
    THEN Throw("Failed to parse JSON")
    ELSE LET hasJson == response.json \/ (response.status >= 400 /\ response.status = 422)
             responseBodyJson ==
                 IF response.json THEN response.body
                 ELSE JsonBody(Absent, NonJson422)
         IN IF response.status = 422
            THEN (IF 422 \notin handlers THEN Throw("handler is not a function")
                  ELSE Invoke(422, Absent,
                              IF hasJson /\ Populated(responseBodyJson.error)
                              THEN responseBodyJson.error ELSE HttpError422))
            ELSE IF ~hasJson
            THEN Throw("Cannot read properties of undefined (reading 'data')")
            ELSE IF response.status \notin handlers
            THEN Throw("handler is not a function")
            ELSE Invoke(response.status, responseBodyJson.data, Absent)

NoResult == [kind |-> "none", by |-> 0, text |-> ""]
\* callApi returned what the handler keyed by status returned
Returned(status) == [kind |-> "returned", by |-> status, text |-> ""]
\* callApi threw: an Error of its own (by = 0) or what the handler keyed by
\* status threw
Threw(status, text) == [kind |-> "threw", by |-> status, text |-> text]

\* The response the adapter resolves with when the server wrote entry e
FromWire(e) == HttpResponse(e.status, e.body)

-----------------------------------------------------------------------------
(* State of one request *)

Stage(kind, idx) == [kind |-> kind, idx |-> idx]
UploadStage == Stage("upload", 0)
MwStage(i) == Stage("mw", i)
PipelineStage == Stage("pipeline", 0)
HandlerStage == Stage("handler", 0)
FrameworkStage == Stage("framework", 0)

\* A response on the wire, with who wrote it and through which call:
\* via is "respond" (res.respond), "json" (a direct write), "upload", "catch",
\* "fallback" (no response set by the handler) or "framework"
Entry(r, via, by, callStatus, callPayload) ==
    [status |-> r.status, body |-> r.body, via |-> via, by |-> by,
     callStatus |-> callStatus, callPayload |-> callPayload]
NoEntry == Entry(Response(0, NoBody), "none", FrameworkStage, 0, Absent)

NotDelivered == [set |-> FALSE, params |-> EmptyObj, query |-> EmptyObj, body |-> EmptyObj]
Delivered(p) == [set |-> TRUE, params |-> p.params, query |-> p.query, body |-> p.body]

Thrown(by, e) == [by |-> by, kind |-> e.kind, msg |-> e.msg]

\* Where the chain continues when middleware i-1 (or the upload stage) calls next
AfterNext(i) == IF i <= nmw THEN "mw" ELSE "pipeline"

-----------------------------------------------------------------------------
(* object-handlers.ts: the middlewares of a registration *)

\* A user middleware as RegisterHandlers and the chain see it:
\*   length  the number of parameters it declares (Function.length)
\*   stores  it assigns req.ctx = { ...req.ctx, <its own key> } when invoked
\*   body    "next": it does nothing else but call next; "any": it may respond,
\*           write, throw, return or call next
\*   awaits  it awaits something of its own before it calls next
\*   after   it awaits next() and then has asynchronous work of its own
\*   registers  it calls res.onResponse(callback) before anything else
Middleware(length, stores, body, awaits, after, registers) ==
    [length |-> length, stores |-> stores, body |-> body, awaits |-> awaits, after |-> after,
     registers |-> registers]

\* A registration that would hand every middleware on as it was given
RegisterHandlersAsGiven(middlewares) ==
    [i \in DOMAIN middlewares |-> [wrapped |-> FALSE, middleware |-> middlewares[i]]]

\* RegisterHandlers / RegisterHonoHandlers: endpointMiddlewares
RegisterHandlers(middlewares) ==
    [i \in DOMAIN middlewares |->
        IF middlewares[i].length = 4
        THEN [wrapped |-> FALSE, middleware |-> middlewares[i]]
        ELSE [wrapped |-> TRUE, middleware |-> middlewares[i]]]

\* { domain: currentDomain, routeKey: currentRouteKey } of the route
EndpointInfo == [domain |-> "public", routeKey |-> "context"]
NoInfo == [domain |-> "", routeKey |-> ""]

\* What user code receives when it is invoked: the number of arguments, the
\* endpoint info among them, req.ctx as it stands, and the middlewares of the
\* same request that are executing at that moment
Args(argc, endpointInfo, c, executing) ==
    [argc |-> argc, endpointInfo |-> endpointInfo, ctx |-> c, executing |-> executing]

\* wrappedMiddleware calls endpointMiddlewares[i](req, res, next, { domain, routeKey }):
\* the wrapper of RegisterHandlers passes on (req, res, next)
MiddlewareArgs(endpointMiddleware, c, executing) ==
    IF endpointMiddleware.wrapped
    THEN Args(3, NoInfo, c, executing)
    ELSE Args(4, EndpointInfo, c, executing)

\* The requests in flight: 1 is the request of the pipeline, 2 the other one
ReqIds == {1, 2}
\* A value a middleware put into the ctx of request r under its own key
CtxEntry(r, i) == [of |-> r, by |-> i]

\* One request object for all requests
sharedRequestObject(r) == 1

\* The object ctx lives on: expressReq / c.req, one per request
requestObject(r) == r

\* req.ctx as a middleware of request r finds it
ReqCtx(r) == ctx[requestObject(r)]

\* req.ctx = { ...req.ctx, key: value } by middleware i of request r
StoreCtx(r, i) == [ctx EXCEPT ![requestObject(r)] = @ \cup {CtxEntry(r, i)}]

\* req.ctx as the handler finds it: finalTypedReq copies expressReq.ctx, the
\* fakeReq of the Hono closure has no ctx property
HandlerCtx(r) == IF adapter = "express" THEN ReqCtx(r) ELSE {}

\* The middlewares of the request that resumed after next() and have not finished
Executing == {i \in DOMAIN post : post[i] = "resumed"}

\* res._responseCallbacks: the callbacks pushed by middlewareRes.onResponse, in
\* the order of the pushes; a middleware that registers does so when it is
\* invoked. c.res of the Hono adapter has no onResponse
responseCallbacks ==
    IF adapter = "express"
    THEN SelectSeq(invoked, LAMBDA st : st.kind = "mw" /\ mws[st.idx].registers)
    ELSE <<>>

\* One call of a callback: callback(status, dataForResponse)
Notified(callback, status) == [callback |-> callback, status |-> status]

\* _responseCallbacks.forEach(callback => callback(status, dataForResponse)),
\* the first thing respond(status, data) does
notifyCallbacks(status) ==
    notified \o [k \in DOMAIN responseCallbacks |-> Notified(responseCallbacks[k].idx, status)]

NoOther == [inFlight |-> FALSE, stage |-> 0, seen |-> {}]

-----------------------------------------------------------------------------
(* Inputs of the model *)

Adapters == {"express", "hono"}

\* definition.ts: HttpMethod = MethodsWithoutBody | MethodsWithBody
HttpMethod == {"GET", "HEAD", "OPTIONS", "POST", "PUT", "DELETE", "PATCH"}

\* The switch on method.toUpperCase() at the end of registerRouteHandlers and
\* of registerHonoRouteHandlers: the methods that have a case of their own, every
\* other one only logs 'Unsupported HTTP method'
registered(a, method) ==
    IF a = "express"
    THEN method \in {"GET", "POST", "PATCH", "OPTIONS", "PUT", "DELETE"}
    ELSE method \in {"GET", "POST", "PATCH", "PUT", "DELETE"}

\* The answer of the framework to a request that matches no registered route
NotFound(a) == Response(404, RawBody(IF a = "express" THEN "html" ELSE "text"))
Methods == {"GET", "POST", "PATCH"}
SchemaA == ZodObject("string")

RespondStatuses == {200, 204, 404, 422, 500}
Payloads ==
    { ObjVal(Obj(Str("x"), Undefined)),       \* conforms to { a: string }
      ObjVal(Obj(Str("x"), Str("y"))),        \* carries the undeclared property b
      NullVal,
      ListVal(<<ErrorDetail("a", "body", Msg("custom", {}))>>),
      ObjsVal(<<Obj(Str("x"), Undefined)>>),  \* conforms to array of { a: string }
      ObjsVal(<<Obj(Str("x"), Str("y"))>>) }  \* its element carries the undeclared b
DirectResponses ==
    { Response(401, JsonBody(Absent, ListVal(<<ErrorDetail("auth", "general", Msg("denied", {}))>>))) }
Exceptions == {Exc("Error", "m1"), Exc("Error", "m2"), Exc("other", "m1"), Exc("ZodError", "m1")}
HeadersSent == Exc("Error", "ERR_HTTP_HEADERS_SENT")
NotAFunction == Exc("Error", "res.respond is not a function")
OnResponseNotAFunction == Exc("Error", "res.onResponse is not a function")
NullBodyStatus == Exc("Error", "Response with null body status cannot have body")

UserResponses ==
    { (200 :> ZodInput(SchemaA)) @@ (204 :> ZodInput(SchemaA)),
      (200 :> MarkerInput),
      (200 :> ZodInput(SchemaA)) @@ (422 :> ZodInput(SchemaA)),
      (200 :> ZodInput(ZodArray("string"))) }

Route(method, params, query, body, responses, fileUpload) ==
    CreateApiDefinition(
        [method |-> method, params |-> params, query |-> query, body |-> body,
         responses |-> responses, fileUpload |-> fileUpload])

StringInputs == {Obj(va, vb) : va \in {Undefined, Str("x"), Str("42")}, vb \in {Undefined, Str("y")}}
JsonInputs == {Obj(va, vb) : va \in {Undefined, Str("x"), Num("42")}, vb \in {Undefined, Str("y")}}
\* A query string also carries the literals a boolean field is written in
QueryInputs == StringInputs \cup {Obj(Str("true"), Undefined), Obj(Str("false"), Undefined)}
Request(params, query, body, files) ==
    [params |-> params, query |-> query, body |-> body, files |-> files]

FieldNamesSent == {"file", "doc"}
FileSizes == 1..3
MimeTypes == {"image/png", "text/plain"}
Files == {File(n, s, m) : n \in FieldNamesSent, s \in FileSizes, m \in MimeTypes}
RECURSIVE SeqsUpTo(_, _)
SeqsUpTo(S, n) ==
    IF n = 0 THEN {<<>>}
    ELSE SeqsUpTo(S, n - 1) \cup {Append(q, x) : q \in {t \in SeqsUpTo(S, n - 1) : Len(t) = n - 1}, x \in S}

UploadConfigs ==
    { UploadCfg("single", <<FieldCfg("file", 1, TRUE, {"image/png"}, 0)>>),
      UploadCfg("array", <<FieldCfg("file", 2, FALSE, {}, 1)>>),
      UploadCfg("fields", <<FieldCfg("file", 1, TRUE, {"image/png"}, 0),
                            FieldCfg("doc", 2, FALSE, {}, 0)>>),
      UploadCfg("any", <<FieldCfg("", 1, TRUE, {"image/png"}, 0)>>) }

\* Routes with input schemas, requests that satisfy or violate them
\* The declared types of the path parameter a and of the query field a
ParamAndQueryTypes ==
    {<<"string", qt>> : qt \in {"string", "number", "boolean"}} \cup {<<"number", "string">>}

InitValidation ==
    /\ nmw = 0
    /\ inputMap = (200 :> ZodInput(SchemaA))
    /\ \E m \in Methods, t \in ParamAndQueryTypes :
          route = Route(m, ZodObject(t[1]), ZodObject(t[2]), IF m = "GET" THEN NoSchema ELSE SchemaA,
                        CreateResponses(inputMap), NoUpload)
    /\ \E p \in StringInputs, q \in QueryInputs, b \in JsonInputs :
          req = Request(p, q, IF route.method = "GET" THEN EmptyObj ELSE b, <<>>)

\* Routes with middlewares and several response maps
InitMiddleware ==
    /\ nmw \in 0..MaxMw
    /\ inputMap \in UserResponses
    /\ route = Route("POST", NoSchema, NoSchema, NoSchema, CreateResponses(inputMap), NoUpload)
    /\ req = Request(EmptyObj, EmptyObj, EmptyObj, <<>>)

\* Routes with middlewares and a body schema, requests that satisfy or violate it
InitGuarded ==
    /\ nmw \in 1..MaxMw
    /\ inputMap = (200 :> ZodInput(SchemaA))
    /\ route = Route("POST", NoSchema, NoSchema, SchemaA, CreateResponses(inputMap), NoUpload)
    /\ \E b \in {Obj(Str("x"), Undefined), EmptyObj} :
          req = Request(EmptyObj, EmptyObj, b, <<>>)

\* Middlewares that pass the request on and do nothing else to it, as those of
\* the test suite do
\* contextMiddleware: three parameters, stores into req.ctx, then next
contextMiddleware == Middleware(3, TRUE, "next", FALSE, FALSE, FALSE)

\* loggingMiddleware: four parameters, logs the endpoint, then next
loggingMiddleware == Middleware(4, FALSE, "next", FALSE, FALSE, FALSE)

\* a middleware with work of its own after `await next()`
auditMiddleware == Middleware(3, FALSE, "next", FALSE, TRUE, FALSE)

\* a middleware that awaits a lookup of its own and then calls next
lookupMiddleware == Middleware(4, FALSE, "next", TRUE, FALSE, FALSE)

ChainMiddlewares == {contextMiddleware, loggingMiddleware, auditMiddleware, lookupMiddleware}

\* Routes of every method of the contract, without middlewares
InitRouted ==
    /\ nmw = 0
    /\ inputMap = (200 :> ZodInput(SchemaA))
    /\ \E m \in HttpMethod :
          route = Route(m, NoSchema, NoSchema, NoSchema, CreateResponses(inputMap), NoUpload)
    /\ req = Request(EmptyObj, EmptyObj, EmptyObj, <<>>)

\* A middleware the model knows nothing about
AnyMiddleware == Middleware(4, FALSE, "any", TRUE, FALSE, FALSE)

\* timingMiddleware: res.onResponse(callback), then await next()
timingMiddleware == Middleware(4, FALSE, "next", FALSE, FALSE, TRUE)

\* Routes behind timingMiddleware, alone or followed by another middleware
InitTimed ==
    /\ nmw \in 1..MaxMw
    /\ inputMap = (200 :> ZodInput(SchemaA))
    /\ route = Route("GET", NoSchema, NoSchema, NoSchema, CreateResponses(inputMap), NoUpload)
    /\ req = Request(EmptyObj, EmptyObj, EmptyObj, <<>>)
    /\ mws \in {m \in [1..nmw -> {timingMiddleware, AnyMiddleware}] : m[1] = timingMiddleware}
    /\ other = NoOther


\* Routes behind a chain of middlewares that pass the request on
InitChain ==
    /\ nmw \in 1..MaxMw
    /\ inputMap = (200 :> ZodInput(SchemaA))
    /\ route = Route("GET", NoSchema, NoSchema, NoSchema, CreateResponses(inputMap), NoUpload)
    /\ req = Request(EmptyObj, EmptyObj, EmptyObj, <<>>)
    /\ mws \in [1..nmw -> ChainMiddlewares]
    /\ other = NoOther

\* Two requests in flight on a route whose middlewares store into ctx
InitConcurrent ==
    /\ nmw \in 1..MaxMw
    /\ inputMap = (200 :> ZodInput(SchemaA))
    /\ route = Route("GET", NoSchema, NoSchema, NoSchema, CreateResponses(inputMap), NoUpload)
    /\ req = Request(EmptyObj, EmptyObj, EmptyObj, <<>>)
    /\ mws = [i \in 1..nmw |-> contextMiddleware]
    /\ other = [inFlight |-> TRUE, stage |-> 0, seen |-> {}]

\* Routes with a fileUpload spec, requests that carry files
InitUpload ==
    /\ nmw = 1
    /\ inputMap = (200 :> ZodInput(SchemaA))
    /\ \E c \in UploadConfigs :
          route = Route("POST", NoSchema, NoSchema, NoSchema, CreateResponses(inputMap), c)
    /\ \E fs \in SeqsUpTo(Files, MaxFiles) : req = Request(EmptyObj, EmptyObj, EmptyObj, fs)

\* The inputs of callApi: route.path, callData.params, the client's persistent
\* headers, callData.headers and the handlers map (the type of callApi asks for a
\* handler per declared status)
Call(prefix, path, params, persistent, headers, handlers) ==
    [prefix |-> prefix, path |-> path, params |-> params, persistentHeaders |-> persistent,
     headers |-> headers, handlers |-> handlers]

\* A contract, a route path of it and the params of a call, as
\* [prefix, path, params]
CallInput(prefix, path, params) == [prefix |-> prefix, path |-> path, params |-> params]

ParamValues == {Undefined, Str("7")}

\* '/users' and '/users/:id' without a prefix, with and without a value for id
Paths == { <<"/">> \o Lit("users"), <<"/">> \o Lit("users") \o <<"/">> \o Placeholder(IdParam) }
PlainCalls ==
    {CallInput(NoPrefix, path, <<Param(IdParam, v)>>) : path \in Paths, v \in ParamValues}

\* Prefixes and paths with and without leading, trailing and repeated slashes
Api == <<"/">> \o Lit("api")
Users == <<"/">> \o Lit("users")
SlashCalls ==
    { CallInput(Api, Users, <<>>),
      CallInput(Lit("api"), Users, <<>>),
      CallInput(Api \o <<"/">>, Users, <<>>),
      CallInput(Api \o <<"/", "/">>, Users, <<>>),
      CallInput(Api, Lit("users"), <<>>),
      CallInput(Api, Users \o <<"/">>, <<>>),
      CallInput(Api, <<"/">> \o Users, <<>>),
      CallInput(Api, Users \o <<"/", "/">> \o Lit("all"), <<>>),
      CallInput(NoPrefix, <<"/">> \o Users, <<>>) }

\* Paths that name two parameters, one a prefix of the other, or one twice,
\* with the params given in either order
TwoParamPaths ==
    { <<"/">> \o Placeholder(IdxParam) \o <<"/">> \o Placeholder(IdParam),
      <<"/">> \o Placeholder(IdParam) \o <<"/">> \o Placeholder(IdxParam),
      <<"/">> \o Placeholder(IdParam) \o <<"/">> \o Placeholder(IdParam) }
TwoParams ==
    { <<Param(IdParam, Str("7")), Param(IdxParam, Str("9"))>>, <<Param(IdxParam, Str("9")), Param(IdParam, Str("7"))>> }
TwoParamCalls ==
    {CallInput(NoPrefix, path, params) : path \in TwoParamPaths, params \in TwoParams}
PersistentHeaderValues == {Unset, "persistent"}
CallHeaderValues == {Unset, "per-call"}

ClientResponses == (200 :> ZodInput(SchemaA)) @@ (204 :> ZodInput(SchemaA)) @@ (404 :> ZodInput(SchemaA))

\* What a transport may resolve with
TransportStatuses == {200, 204, 404, 422, 500}
TransportBodies ==
    { JsonBody(ObjVal(Obj(Str("x"), Undefined)), Absent),
      JsonBody(Absent, ListVal(<<ErrorDetail("a", "body", Msg("Required", {}))>>)),
      JsonBody(Absent, Absent),
      RawBody("badjson"),
      RawBody("text"),
      NoBody }

\* The request of a server slice was sent by a client that handles every
\* declared status
InitServed ==
    /\ adapter \in Adapters
    /\ \/ /\ (InitValidation \/ InitMiddleware \/ InitGuarded \/ InitUpload \/ InitRouted)
          /\ mws = [i \in 1..nmw |-> AnyMiddleware]
          /\ other = NoOther
       \/ InitChain
       \/ InitConcurrent
       \/ InitTimed
    /\ pc = "request"
    /\ call = Call(NoPrefix, <<>>, NoCall.params, NoCall.persistentHeaders, NoCall.headers,
                   definedStatusCodes(route.responses))
    /\ request = HttpRequest(<<>>, requestHeaders(call.persistentHeaders, call.headers))

\* Calls of an ApiClient over a transport of its own
InitClient ==
    /\ adapter = "fetch"
    /\ nmw = 0
    /\ inputMap = ClientResponses
    /\ route = Route("GET", NoSchema, NoSchema, NoSchema, CreateResponses(inputMap), NoUpload)
    /\ req = Request(EmptyObj, EmptyObj, EmptyObj, <<>>)
    /\ pc = "call"
    /\ mws = <<>>
    /\ other = NoOther
    /\ \/ \E i \in PlainCalls, ch \in [HeaderNames -> CallHeaderValues] :
             call = Call(i.prefix, i.path, i.params, NoCall.persistentHeaders, ch,
                         definedStatusCodes(route.responses))
       \/ \E i \in SlashCalls \cup TwoParamCalls :
             call = Call(i.prefix, i.path, i.params, NoCall.persistentHeaders, NoCall.headers,
                         definedStatusCodes(route.responses))
    /\ request = NoRequest

Init ==
    /\ (InitServed \/ InitClient)
    /\ adapterResponse = NoResponse
    /\ handlerCalls = <<>>
    /\ result = NoResult
    /\ persistentHeaders = [h \in HeaderNames |-> Unset]
    /\ calls = 1
    /\ ctx = [r \in ReqIds |-> {}]
    /\ received = <<>>
    /\ notified = <<>>
    /\ post = [i \in 1..nmw |-> "idle"]
    /\ mwIdx = 1
    /\ invoked = <<>>
    /\ wire = <<>>
    /\ honoResponse = NoEntry
    /\ delivered = NotDelivered
    /\ thrown = {}
    /\ returned = {}
    /\ escaped = FALSE

-----------------------------------------------------------------------------
(* The transports *)

\* A transport that would take a write after the response was sent
ExpressWritesAgain == TRUE

\* res.status(..).json(..) of Express: the first write reaches the wire
ExpressCanWrite == wire = <<>>

\* The closure's catch block writes its response; if one was already sent the
\* write throws inside the catch block and the exception leaves the closure
ExpressCatch(error) ==
    IF ExpressCanWrite
    THEN /\ wire' = <<Entry(ExpressJson(catchBlock(route.responses, error)), "catch",
                            PipelineStage, 0, Absent)>>
         /\ escaped' = escaped
    ELSE /\ wire' = wire
         /\ escaped' = TRUE

\* wrappedMiddleware of the Hono adapter after a throw: console.error, return next()
HonoMiddlewareCaught(error) ==
    /\ thrown' = thrown \cup {Thrown(MwStage(mwIdx), error)}
    /\ mwIdx' = mwIdx + 1
    /\ pc' = AfterNext(mwIdx + 1)
    /\ UNCHANGED <<wire>>

\* wrappedMiddleware of the Express adapter after a throw: next(error)
ExpressMiddlewareCaught(error) ==
    /\ thrown' = thrown \cup {Thrown(MwStage(mwIdx), error)}
    /\ pc' = "error"
    /\ UNCHANGED <<wire, mwIdx>>

-----------------------------------------------------------------------------
(* The upload stage *)

\* The host framework receives a request that matches the method and the
\* full path of the route: app.get / app.post / ... registered allHandlers for
\* it, or nothing was registered and the framework answers the request itself
dispatch ==
    /\ pc = "request"
    /\ IF registered(adapter, route.method)
       THEN /\ pc' = IF route.fileUpload.kind # "none" THEN "upload" ELSE AfterNext(1)
            /\ wire' = wire
       ELSE /\ pc' = "done"
            /\ wire' = <<Entry(NotFound(adapter), "unrouted", FrameworkStage, 0, Absent)>>
    /\ UNCHANGED <<call, request, adapterResponse, handlerCalls, result, persistentHeaders, calls>>
    /\ UNCHANGED <<notified, mws, ctx, received, post, other>>
    /\ UNCHANGED <<adapter, route, inputMap, nmw, req, returned, mwIdx, invoked, honoResponse, delivered,
                   thrown, escaped>>

expressFileUpload ==
    /\ pc = "upload" /\ adapter = "express"
    /\ LET error == createFileUploadMiddleware(route.fileUpload, req.files)
       IN IF error.failed
          THEN /\ wire' = <<Entry(ExpressJson(uploadErrorResponse(error)), "upload",
                                  UploadStage, 0, Absent)>>
               /\ pc' = "done"
          ELSE /\ wire' = wire
               /\ pc' = AfterNext(1)
    /\ UNCHANGED <<call, request, adapterResponse, handlerCalls, result, persistentHeaders, calls>>
    /\ UNCHANGED <<notified, mws, ctx, received, post, other>>
    /\ UNCHANGED <<adapter, route, inputMap, nmw, req, returned, mwIdx, invoked, honoResponse, delivered,
                   thrown, escaped>>

honoFileUpload ==
    /\ pc = "upload" /\ adapter = "hono"
    /\ LET error == createHonoFileUploadMiddleware(route.fileUpload, req.files)
       IN IF error.failed
          THEN /\ wire' = <<Entry(uploadErrorResponse(error), "upload", UploadStage, 0, Absent)>>
               /\ pc' = "done"
          ELSE /\ wire' = wire
               /\ pc' = AfterNext(1)
    /\ UNCHANGED <<call, request, adapterResponse, handlerCalls, result, persistentHeaders, calls>>
    /\ UNCHANGED <<notified, mws, ctx, received, post, other>>
    /\ UNCHANGED <<adapter, route, inputMap, nmw, req, returned, mwIdx, invoked, honoResponse, delivered,
                   thrown, escaped>>

-----------------------------------------------------------------------------
(* The middleware chain: wrappedMiddleware and the user middleware it awaits *)

MiddlewareInvoked ==
    /\ pc = "mw"
    /\ invoked' = Append(invoked, MwStage(mwIdx))
    /\ received' = Append(received, MiddlewareArgs(RegisterHandlers(mws)[mwIdx], ReqCtx(1), Executing))
    /\ ctx' = IF mws[mwIdx].stores THEN StoreCtx(1, mwIdx) ELSE ctx
    /\ pc' = "inmw"
    /\ UNCHANGED <<call, request, adapterResponse, handlerCalls, result, persistentHeaders, calls>>
    /\ UNCHANGED <<notified, mws, post, other>>
    /\ UNCHANGED <<adapter, route, inputMap, nmw, req, returned, mwIdx, wire, honoResponse, delivered,
                   thrown, escaped>>

\* The middleware calls res.respond(status, data)
MiddlewareResponds ==
    /\ pc = "inmw"
    /\ mws[mwIdx].body = "any"
    /\ \E s \in RespondStatuses, p \in Payloads :
          IF adapter = "express"
          THEN IF ExpressCanWrite
               THEN /\ wire' = <<Entry(ExpressJson(createRespondFunction(route.responses, s, p)),
                                       "respond", MwStage(mwIdx), s, p)>>
                    /\ notified' = notifyCallbacks(s)
                    /\ UNCHANGED <<pc, mwIdx, thrown>>
               ELSE /\ ExpressMiddlewareCaught(HeadersSent)
                    /\ notified' = notifyCallbacks(s)
          ELSE /\ HonoMiddlewareCaught(NotAFunction)
               /\ UNCHANGED notified
    /\ UNCHANGED <<call, request, adapterResponse, handlerCalls, result, persistentHeaders, calls>>
    /\ UNCHANGED <<mws, ctx, received, post, other>>
    /\ UNCHANGED <<adapter, route, inputMap, nmw, req, returned, invoked, honoResponse, delivered, escaped>>

\* The middleware writes a response directly: res.status(s).json(body)
MiddlewareWrites ==
    /\ pc = "inmw"
    /\ mws[mwIdx].body = "any"
    /\ \E r \in DirectResponses :
          IF adapter = "express"
          THEN IF ExpressCanWrite
               THEN /\ wire' = <<Entry(ExpressJson(r), "json", MwStage(mwIdx), 0, Absent)>>
                    /\ UNCHANGED <<pc, mwIdx, thrown>>
               ELSE ExpressMiddlewareCaught(HeadersSent)
          ELSE HonoMiddlewareCaught(NotAFunction)
    /\ UNCHANGED <<call, request, adapterResponse, handlerCalls, result, persistentHeaders, calls>>
    /\ UNCHANGED <<notified, mws, ctx, received, post, other>>
    /\ UNCHANGED <<adapter, route, inputMap, nmw, req, returned, invoked, honoResponse, delivered, escaped>>

\* The middleware calls next(). A middleware that registers a callback has
\* called res.onResponse before: on c.res of the Hono adapter that is a
\* TypeError, which the wrapper catches
MiddlewareCallsNext ==
    /\ pc = "inmw"
    /\ IF adapter = "hono" /\ mws[mwIdx].registers
       THEN HonoMiddlewareCaught(OnResponseNotAFunction)
       ELSE /\ mwIdx' = mwIdx + 1
            /\ pc' = AfterNext(mwIdx + 1)
            /\ UNCHANGED <<thrown, wire>>
    /\ UNCHANGED <<call, request, adapterResponse, handlerCalls, result, persistentHeaders, calls>>
    /\ UNCHANGED <<notified, mws, ctx, received, post, other>>
    /\ UNCHANGED <<adapter, route, inputMap, nmw, req, returned, invoked, honoResponse, delivered,
                   escaped>>

MiddlewareThrows ==
    /\ pc = "inmw"
    /\ mws[mwIdx].body = "any"
    /\ \E e \in Exceptions :
          IF adapter = "express" THEN ExpressMiddlewareCaught(e) ELSE HonoMiddlewareCaught(e)
    /\ UNCHANGED <<call, request, adapterResponse, handlerCalls, result, persistentHeaders, calls>>
    /\ UNCHANGED <<notified, mws, ctx, received, post, other>>
    /\ UNCHANGED <<adapter, route, inputMap, nmw, req, returned, invoked, honoResponse, delivered, escaped>>

\* A chain that would go on to the next registered handler after a middleware
\* returned without having called next
MiddlewareReturnsAndChainContinues ==
    /\ pc = "inmw"
    /\ mws[mwIdx].body = "any"
    /\ pc' = AfterNext(mwIdx + 1)
    /\ mwIdx' = mwIdx + 1
    /\ returned' = returned \cup {mwIdx}
    /\ UNCHANGED <<call, request, adapterResponse, handlerCalls, result, persistentHeaders, calls>>
    /\ UNCHANGED <<notified, mws, ctx, received, post, other>>
    /\ UNCHANGED <<adapter, route, inputMap, nmw, req, invoked, wire, honoResponse, delivered,
                   thrown, escaped>>

\* The middleware returns without having called next
MiddlewareReturns ==
    /\ pc = "inmw"
    /\ mws[mwIdx].body = "any"
    /\ pc' = IF adapter = "express" THEN "stopped" ELSE "unfinalized"
    /\ returned' = returned \cup {mwIdx}
    /\ UNCHANGED <<call, request, adapterResponse, handlerCalls, result, persistentHeaders, calls>>
    /\ UNCHANGED <<notified, mws, ctx, received, post, other>>
    /\ UNCHANGED <<adapter, route, inputMap, nmw, req, mwIdx, invoked, wire, honoResponse, delivered,
                   thrown, escaped>>

\* Express hands next(error) to its default error handler
expressErrorHandler ==
    /\ pc = "error"
    /\ wire' = IF ExpressCanWrite
               THEN <<Entry(Response(500, RawBody("html")), "framework", FrameworkStage, 0, Absent)>>
               ELSE wire
    /\ pc' = "done"
    /\ UNCHANGED <<call, request, adapterResponse, handlerCalls, result, persistentHeaders, calls>>
    /\ UNCHANGED <<notified, mws, ctx, received, post, other>>
    /\ UNCHANGED <<adapter, route, inputMap, nmw, req, returned, mwIdx, invoked, honoResponse, delivered,
                   thrown, escaped>>

\* Hono answers a chain that ended without a Response and without next
honoNotFinalized ==
    /\ pc = "unfinalized"
    /\ wire' = Append(wire, Entry(Response(500, RawBody("text")), "framework",
                                  FrameworkStage, 0, Absent))
    /\ pc' = "done"
    /\ UNCHANGED <<call, request, adapterResponse, handlerCalls, result, persistentHeaders, calls>>
    /\ UNCHANGED <<notified, mws, ctx, received, post, other>>
    /\ UNCHANGED <<adapter, route, inputMap, nmw, req, returned, mwIdx, invoked, honoResponse, delivered,
                   thrown, escaped>>

\* The stage the chain is in has given up control: it returned, or it is
\* suspended in an await of its own
Suspended ==
    \/ pc \in {"handler", "done", "stopped", "error"}
    \/ pc = "inmw" /\ mws[mwIdx].awaits

\* The next() call of middleware i returns to it and it goes on with its own
\* work. Express's next returns nothing to wait for: `await next()` is over as
\* soon as the stages next ran have given up control. Hono's next returns the
\* promise of the rest of the chain, which the middleware awaits
NextReturns ==
    /\ \E i \in 1..nmw :
          /\ mws[i].after
          /\ post[i] = "idle"
          /\ i < mwIdx
          /\ ~\E t \in thrown : t.by = MwStage(i)
          /\ IF adapter = "express" THEN Suspended ELSE pc = "done"
          /\ post' = [post EXCEPT ![i] = "resumed"]
    /\ UNCHANGED <<call, request, adapterResponse, handlerCalls, result, persistentHeaders, calls>>
    /\ UNCHANGED <<notified, mws, ctx, received, other>>
    /\ UNCHANGED <<adapter, route, inputMap, nmw, req, pc, returned, mwIdx, invoked, wire,
                   honoResponse, delivered, thrown, escaped>>

\* The middleware's own work after next() is done: its promise resolves
MiddlewareFinishes ==
    /\ \E i \in 1..nmw :
          /\ post[i] = "resumed"
          /\ post' = [post EXCEPT ![i] = "finished"]
    /\ UNCHANGED <<call, request, adapterResponse, handlerCalls, result, persistentHeaders, calls>>
    /\ UNCHANGED <<notified, mws, ctx, received, other>>
    /\ UNCHANGED <<adapter, route, inputMap, nmw, req, pc, returned, mwIdx, invoked, wire,
                   honoResponse, delivered, thrown, escaped>>

\* The other request in flight moves on by one stage of the same chain: its
\* next middleware is invoked with its own request object and calls next, or
\* its handler is
OtherRequestAdvances ==
    /\ other.inFlight
    /\ other.stage <= nmw
    /\ IF other.stage < nmw
       THEN /\ other' = [other EXCEPT !.stage = @ + 1, !.seen = @ \cup ReqCtx(2)]
            /\ ctx' = IF mws[other.stage + 1].stores THEN StoreCtx(2, other.stage + 1) ELSE ctx
       ELSE /\ other' = [other EXCEPT !.stage = @ + 1, !.seen = @ \cup HandlerCtx(2)]
            /\ ctx' = ctx
    /\ UNCHANGED <<call, request, adapterResponse, handlerCalls, result, persistentHeaders, calls>>
    /\ UNCHANGED <<notified, mws, received, post>>
    /\ UNCHANGED <<adapter, route, inputMap, nmw, req, pc, returned, mwIdx, invoked, wire,
                   honoResponse, delivered, thrown, escaped>>

-----------------------------------------------------------------------------
(* The request closure: validation, the handler, the catch block *)

expressMiddleware ==
    /\ pc = "pipeline" /\ adapter = "express"
    /\ LET parsed == expressParse(route, req)
       IN IF parsed.ok
          THEN /\ delivered' = Delivered(parsed)
               /\ invoked' = Append(invoked, HandlerStage)
               /\ received' = Append(received, Args(2, NoInfo, HandlerCtx(1), Executing))
               /\ pc' = "handler"
               /\ UNCHANGED <<wire, escaped>>
          ELSE /\ ExpressCatch(ZodError(parsed.issues))
               /\ pc' = "done"
               /\ UNCHANGED <<delivered, invoked, received>>
    /\ UNCHANGED <<call, request, adapterResponse, handlerCalls, result, persistentHeaders, calls>>
    /\ UNCHANGED <<notified, mws, ctx, post, other>>
    /\ UNCHANGED <<adapter, route, inputMap, nmw, req, returned, mwIdx, honoResponse, thrown>>

honoMiddleware ==
    /\ pc = "pipeline" /\ adapter = "hono"
    /\ LET parsed == honoParse(route, req)
       IN IF parsed.ok
          THEN /\ delivered' = Delivered(parsed)
               /\ invoked' = Append(invoked, HandlerStage)
               /\ received' = Append(received, Args(2, NoInfo, HandlerCtx(1), Executing))
               /\ pc' = "handler"
               /\ UNCHANGED <<wire>>
          ELSE /\ wire' = Append(wire, Entry(catchBlock(route.responses, ZodError(parsed.issues)),
                                             "catch", PipelineStage, 0, Absent))
               /\ pc' = "done"
               /\ UNCHANGED <<delivered, invoked, received>>
    /\ UNCHANGED <<call, request, adapterResponse, handlerCalls, result, persistentHeaders, calls>>
    /\ UNCHANGED <<notified, mws, ctx, post, other>>
    /\ UNCHANGED <<adapter, route, inputMap, nmw, req, returned, mwIdx, honoResponse, thrown, escaped>>

\* The handler calls res.respond(status, data)
HandlerResponds ==
    /\ pc = "handler"
    /\ \E s \in RespondStatuses, p \in Payloads :
          IF adapter = "express"
          THEN IF ExpressCanWrite
               THEN /\ wire' = <<Entry(ExpressJson(respond(route.responses, s, p)),
                                       "respond", HandlerStage, s, p)>>
                    /\ notified' = notifyCallbacks(s)
                    /\ UNCHANGED <<pc, thrown, escaped, honoResponse>>
               ELSE \* json() throws in the handler; the catch block's own write throws too
                    /\ thrown' = thrown \cup {Thrown(HandlerStage, HeadersSent)}
                    /\ ExpressCatch(HeadersSent)
                    /\ notified' = notifyCallbacks(s)
                    /\ pc' = "done"
                    /\ UNCHANGED honoResponse
          ELSE /\ UNCHANGED notified
               /\ \E o \in honoJson(honoRespond(route.responses, s, p)) :
                  IF o.threw
                  THEN \* c.json throws inside respond, in the handler
                       /\ thrown' = thrown \cup {Thrown(HandlerStage, NullBodyStatus)}
                       /\ wire' = Append(wire, Entry(catchBlock(route.responses, NullBodyStatus),
                                                     "catch", PipelineStage, s, p))
                       /\ pc' = "done"
                       /\ UNCHANGED <<escaped, honoResponse>>
                  ELSE /\ honoResponse' = Entry(o.response, "respond", HandlerStage, s, p)
                       /\ UNCHANGED <<pc, thrown, escaped, wire>>
    /\ UNCHANGED <<call, request, adapterResponse, handlerCalls, result, persistentHeaders, calls>>
    /\ UNCHANGED <<mws, ctx, received, post, other>>
    /\ UNCHANGED <<adapter, route, inputMap, nmw, req, returned, mwIdx, invoked, delivered>>

HandlerThrows ==
    /\ pc = "handler"
    /\ \E e \in Exceptions :
          /\ thrown' = thrown \cup {Thrown(HandlerStage, e)}
          /\ IF adapter = "express"
             THEN ExpressCatch(e)
             ELSE /\ wire' = Append(wire, Entry(catchBlock(route.responses, e), "catch",
                                                PipelineStage, 0, Absent))
                  /\ escaped' = escaped
    /\ pc' = "done"
    /\ UNCHANGED <<call, request, adapterResponse, handlerCalls, result, persistentHeaders, calls>>
    /\ UNCHANGED <<notified, mws, ctx, received, post, other>>
    /\ UNCHANGED <<adapter, route, inputMap, nmw, req, returned, mwIdx, invoked, honoResponse, delivered>>

\* The handler returns (its promise resolves)
HandlerReturns ==
    /\ pc = "handler"
    /\ wire' = IF adapter = "express" THEN wire
               ELSE IF honoResponse # NoEntry THEN Append(wire, honoResponse)
               ELSE Append(wire, Entry(Response(500, JsonBody(NullVal, ListVal(<<GeneralError(
                        "Internal server error: No response set by handler.")>>))),
                        "fallback", PipelineStage, 0, Absent))
    /\ pc' = "done"
    /\ UNCHANGED <<call, request, adapterResponse, handlerCalls, result, persistentHeaders, calls>>
    /\ UNCHANGED <<notified, mws, ctx, received, post, other>>
    /\ UNCHANGED <<adapter, route, inputMap, nmw, req, returned, mwIdx, invoked, honoResponse, delivered,
                   thrown, escaped>>

-----------------------------------------------------------------------------
(* client.ts: the steps of callApi *)

\* callApi up to the await of adapter.request
callApi ==
    /\ pc = "call"
    /\ call' = [call EXCEPT !.persistentHeaders = persistentHeaders]
    /\ request' = HttpRequest(requestUrl(call.prefix, call.path, call.params),
                              requestHeaders(persistentHeaders, call.headers))
    /\ pc' = "awaiting"
    /\ UNCHANGED <<adapterResponse, handlerCalls, result, persistentHeaders, calls>>
    /\ UNCHANGED serverVars

\* adapter.request rejects: the catch block rethrows
adapterRejects ==
    /\ pc = "awaiting"
    /\ adapterResponse' = NetworkError
    /\ result' = Threw(0, "Network error")
    /\ pc' = "finished"
    /\ UNCHANGED <<call, request, handlerCalls, persistentHeaders, calls>>
    /\ UNCHANGED serverVars

\* adapter.request resolves, with what a server of this model put on the wire
\* or with a response of the transport; callApi runs on to the handler call
adapterResolves ==
    /\ \/ /\ pc = "awaiting"
          /\ \E s \in TransportStatuses, b \in TransportBodies :
                adapterResponse' = HttpResponse(s, b)
       \/ /\ pc = "done"
          /\ wire # <<>>
          /\ adapterResponse' = FromWire(wire[1])
    /\ LET outcome == demultiplex(route.responses, call.handlers, adapterResponse')
       IN IF outcome.kind = "throw"
          THEN /\ result' = Threw(0, outcome.text)
               /\ handlerCalls' = handlerCalls
               /\ pc' = "finished"
          ELSE /\ handlerCalls' = Append(handlerCalls, outcome)
               /\ result' = result
               /\ pc' = "handling"
    /\ UNCHANGED <<call, request, persistentHeaders, calls>>
    /\ UNCHANGED serverVars

\* return handler(apiResultPayload): the handler returns
callApiHandlerReturns ==
    /\ pc = "handling"
    /\ result' = Returned(handlerCalls[Len(handlerCalls)].key)
    /\ pc' = "finished"
    /\ UNCHANGED <<call, request, adapterResponse, handlerCalls, persistentHeaders, calls>>
    /\ UNCHANGED serverVars

\* return handler(apiResultPayload): the handler throws
callApiHandlerThrows ==
    /\ pc = "handling"
    /\ result' = Threw(handlerCalls[Len(handlerCalls)].key, "thrown by the handler")
    /\ pc' = "finished"
    /\ UNCHANGED <<call, request, adapterResponse, handlerCalls, persistentHeaders, calls>>
    /\ UNCHANGED serverVars

\* The positions of a call of the client of this model
ClientPositions == {"call", "awaiting", "handling", "finished"}

\* setHeader(name, value), at any moment of the client's life
setHeader ==
    /\ adapter = "fetch"
    /\ pc \in ClientPositions
    /\ \E name \in HeaderNames, value \in PersistentHeaderValues \ {Unset} :
          /\ persistentHeaders[name] # value
          /\ persistentHeaders' = [persistentHeaders EXCEPT ![name] = value]
    /\ UNCHANGED <<call, request, adapterResponse, handlerCalls, result, calls, pc>>
    /\ UNCHANGED serverVars

\* removeHeader(name)
removeHeader ==
    /\ adapter = "fetch"
    /\ pc \in ClientPositions
    /\ \E name \in HeaderNames :
          /\ persistentHeaders[name] # Unset
          /\ persistentHeaders' = [persistentHeaders EXCEPT ![name] = Unset]
    /\ UNCHANGED <<call, request, adapterResponse, handlerCalls, result, calls, pc>>
    /\ UNCHANGED serverVars

\* clearHeaders()
clearHeaders ==
    /\ adapter = "fetch"
    /\ pc \in ClientPositions
    /\ \E name \in HeaderNames : persistentHeaders[name] # Unset
    /\ persistentHeaders' = [h \in HeaderNames |-> Unset]
    /\ UNCHANGED <<call, request, adapterResponse, handlerCalls, result, calls, pc>>
    /\ UNCHANGED serverVars

\* The client is asked for another call of the same route once the last is over
callApiAgain ==
    /\ adapter = "fetch"
    /\ pc = "finished"
    /\ calls < MaxCalls
    /\ \E ch \in [HeaderNames -> CallHeaderValues] :
          call' = Call(call.prefix, call.path, call.params, persistentHeaders, ch, call.handlers)
    /\ request' = NoRequest
    /\ adapterResponse' = NoResponse
    /\ handlerCalls' = <<>>
    /\ result' = NoResult
    /\ calls' = calls + 1
    /\ pc' = "call"
    /\ UNCHANGED persistentHeaders
    /\ UNCHANGED serverVars

Next ==
    \/ setHeader
    \/ removeHeader
    \/ clearHeaders
    \/ callApiAgain
    \/ callApi
    \/ adapterRejects
    \/ adapterResolves
    \/ callApiHandlerReturns
    \/ callApiHandlerThrows
    \/ dispatch
    \/ expressFileUpload
    \/ honoFileUpload
    \/ MiddlewareInvoked
    \/ MiddlewareResponds
    \/ MiddlewareWrites
    \/ MiddlewareCallsNext
    \/ MiddlewareThrows
    \/ MiddlewareReturns
    \/ expressErrorHandler
    \/ honoNotFinalized
    \/ NextReturns
    \/ MiddlewareFinishes
    \/ OtherRequestAdvances
    \/ expressMiddleware
    \/ honoMiddleware
    \/ HandlerResponds
    \/ HandlerThrows
    \/ HandlerReturns

Spec == Init /\ [][Next]_vars

-----------------------------------------------------------------------------
(* Properties *)

InvokedSet == {invoked[k] : k \in 1..Len(invoked)}

\* The response middleware i put on the wire, if it wrote one
WrittenBy(i) == {k \in 1..Len(wire) : wire[k].by = MwStage(i)}

\* What a write of middleware A puts on the wire: a direct res.status(s).json(body)
\* sends that status and body, res.respond(s, data) sends what createRespondFunction
\* builds for that call
IsWhatWasWritten(e) ==
    \/ /\ e.via = "json"
       /\ \E r \in DirectResponses : Response(e.status, e.body) = ExpressJson(r)
    \/ /\ e.via = "respond"
       /\ Response(e.status, e.body) =
              ExpressJson(createRespondFunction(route.responses, e.callStatus, e.callPayload))

RespondEntries == {wire[k] : k \in {j \in 1..Len(wire) : wire[j].via = "respond"}}

UndefinedSchemaError ==
    ListVal(<<GeneralError("Internal server error: Undefined response schema for status.")>>)

\* C2 (as stated): for a status s absent from the route's responses map, a call
\* respond(s, payload) never puts a response with status s on the wire; the
\* response written is a 500.
C2_UndeclaredNeverAsThatStatus ==
    \A e \in RespondEntries :
        e.callStatus \notin DOMAIN route.responses =>
            /\ e.status # e.callStatus
            /\ e.status = 500

\* C2 (amended): for a status s absent from the route's responses map, the response
\* a call respond(s, payload) writes is a 500 whose body is the general error
\* "undefined response schema" and carries no data; so no status other than 500
\* reaches the wire as itself.
C2_UndeclaredBecomes500 ==
    \A e \in RespondEntries :
        e.callStatus \notin DOMAIN route.responses =>
            /\ e.status = 500
            /\ e.body.error = UndefinedSchemaError
            /\ e.body.data.k \in {"absent", "null"}
            /\ e.callStatus # 500 => e.status # e.callStatus

C2_Witness ==
    \E e \in RespondEntries :
        /\ e.by = HandlerStage
        /\ e.callStatus = 404
        /\ e.callStatus \notin DOMAIN route.responses
        /\ e.callPayload.k = "obj"
        /\ e.status = 500

\* C3: every request dispatched to a registered route has an HTTP response
\* written on every path through the pipeline, the path on which the handler
\* returns without having called respond included: once the pipeline has run
\* to its end, a response is on the wire.
C3_EveryPathWritesResponse ==
    pc = "done" => wire # <<>>

IsGeneralErrorBody(body) ==
    /\ body.raw = "json"
    /\ body.error.k = "list"
    /\ Len(body.error.l) = 1
    /\ body.error.l[1].type = "general"

MiddlewareThrew == \E t \in thrown : t.by.kind = "mw"
MiddlewareWrote == \E k \in 1..Len(wire) : wire[k].by.kind = "mw"

\* C4: if a middleware throws (or its promise rejects) before a response was
\* written, the request is answered with status 500 and a body whose error array
\* holds one generic ErrorDetail of type 'general'.
C4_MiddlewareThrowIs500 ==
    (pc = "done" /\ MiddlewareThrew /\ ~MiddlewareWrote) =>
        /\ Len(wire) = 1
        /\ wire[1].status = 500
        /\ IsGeneralErrorBody(wire[1].body)

\* A payload conforms to the schema declared for a status: for a success status
\* it is an object with every declared field of the declared type and no other
\* field, or an array whose elements the declared element schema accepts; for
\* 422 it is a list of error details
Conforms(responseSchema, payload) ==
    IF responseSchema.envelope = "error" THEN payload.k = "list"
    ELSE \/ responseSchema.any
         \/ /\ ~responseSchema.schema.array
            /\ payload.k = "obj"
            /\ KeyIssues(responseSchema.schema.shape, payload.o, Fields) = <<>>
            /\ ExtraKeys(responseSchema.schema, payload.o) = {}
         \/ /\ responseSchema.schema.array
            /\ payload.k = "objs"
            /\ \A i \in 1..Len(payload.l) :
                   KeyIssues(responseSchema.schema.shape, payload.l[i], Fields) = <<>>

FailedValidationError ==
    ListVal(<<GeneralError("Internal server error: Constructed response failed validation.")>>)

InputNames == {"param", "query", "body"}
SchemaOf(n) == IF n = "param" THEN route.params ELSE IF n = "query" THEN route.query ELSE route.body
ValueOf(n) ==
    IF n = "param" THEN preprocessParams(req.params, route.params)
    ELSE IF n = "query" THEN preprocessQueryParams(req.query, route.query)
    ELSE req.body
Declared == {n \in InputNames : SchemaOf(n).present}
DeclaredFieldsValid(n) == KeyIssues(SchemaOf(n).shape, ValueOf(n), Fields) = <<>>
SuppliesExtra(n) == ExtraKeys(SchemaOf(n), ValueOf(n)) # {}

MentionsUnrecognized(detail, f) ==
    /\ detail.message.text = "Unrecognized key(s) in object"
    /\ f \in detail.message.args

\* C6: on a route whose body, query or params schema declares exactly the field a,
\* a request that supplies an additional field b in such an input (and is valid
\* otherwise) is answered with a 422 holding an ErrorDetail whose message names
\* b, and the handler is not invoked; a request that supplies exactly the
\* declared fields reaches the handler.
C6_UndeclaredFieldRejected ==
    (Declared # {} /\ nmw = 0 /\ \A n \in Declared : DeclaredFieldsValid(n)) =>
        IF \E n \in Declared : SuppliesExtra(n)
        THEN /\ HandlerStage \notin InvokedSet
             /\ pc = "done" =>
                    /\ Len(wire) = 1
                    /\ wire[1].status = 422
                    /\ \E k \in 1..Len(wire[1].body.error.l) :
                           MentionsUnrecognized(wire[1].body.error.l[k], "b")
        ELSE pc = "done" => HandlerStage \in InvokedSet

HandlerThrewOther == {t \in thrown : t.by = HandlerStage /\ t.kind # "ZodError"}

GenericErrorBody(text) == JsonBody(Absent, ListVal(<<GeneralError(text)>>))

\* C7 (as stated): when the handler throws an exception that is not an
\* input-validation error, the response is a 500 with a 'general' ErrorDetail
\* whose message is fixed: the body is the same whatever was thrown.
C7_OneFixedBody ==
    (pc = "done" /\ HandlerThrewOther # {}) =>
        /\ Len(wire) = 1
        /\ wire[1].status = 500
        /\ wire[1].body = GenericErrorBody("Internal server error")

\* C7 (amended): when the handler throws an exception that is not a ZodError and
\* no response had been sent before, the response is a 500 with one 'general'
\* ErrorDetail whose message is 'Internal server error' for an Error and 'An
\* unknown error occurred' for any other thrown value; nothing else of the
\* exception is in the body.
C7_GenericBodyPerKind ==
    \A t \in HandlerThrewOther :
        (pc = "done" /\ ~escaped) =>
            /\ Len(wire) = 1
            /\ wire[1].via = "catch"
            /\ wire[1].status = 500
            /\ wire[1].body = GenericErrorBody(IF t.kind = "Error"
                                               THEN "Internal server error"
                                               ELSE "An unknown error occurred")

C7_Witness ==
    /\ pc = "done"
    /\ ~escaped
    /\ \E t \in HandlerThrewOther : t.kind = "other" /\ t.msg = "m1"
    /\ wire # <<>>
    /\ wire[1].via = "catch"

\* The 422 the closure writes when parsing the inputs failed
IsValidation422 ==
    /\ pc = "done"
    /\ HandlerStage \notin InvokedSet
    /\ Len(wire) = 1
    /\ wire[1].via = "catch"
    /\ wire[1].status = 422

HasIssues(n) ==
    SchemaOf(n).present /\ ZodIssues(SchemaOf(n), ValueOf(n)) # <<>>

\* C8: in a 422 produced by input validation, the type of each ErrorDetail names
\* the input its field came from ('param', 'query' or 'body'), an input that
\* does have a failing field.
C8_TypeNamesTheInput ==
    IsValidation422 =>
        \A k \in 1..Len(wire[1].body.error.l) :
            /\ wire[1].body.error.l[k].type \in InputNames
            /\ HasIssues(wire[1].body.error.l[k].type)

\* C9: a request that violates the schemas of params, query and body at once is
\* answered with a 422 whose error array has one ErrorDetail for every issue of
\* every one of the three inputs.
C9_AllInputsReported ==
    (pc = "done" /\ nmw = 0 /\ route.method = "POST" /\ \A n \in InputNames : HasIssues(n)) =>
        /\ Len(wire) = 1
        /\ wire[1].status = 422
        /\ Len(wire[1].body.error.l) =
               Len(ZodIssues(route.params, ValueOf("param")))
               + Len(ZodIssues(route.query, ValueOf("query")))
               + Len(ZodIssues(route.body, ValueOf("body")))

\* The configuration that applies to an uploaded file, and whether the file
\* breaks its size limit or its MIME allow-list
HasFieldConfig(config, file) ==
    config.kind = "any" \/ file.fieldname \in FieldNames(config)
FieldConfigOf(config, file) ==
    IF config.kind = "any" THEN config.fields[1] ELSE CfgOf(config, file.fieldname)
Offending(config, file) ==
    /\ HasFieldConfig(config, file)
    /\ \/ /\ FieldConfigOf(config, file).maxSize # 0
          /\ file.size > FieldConfigOf(config, file).maxSize
       \/ /\ FieldConfigOf(config, file).hasMimes
          /\ file.mimetype \notin FieldConfigOf(config, file).allowedMimeTypes

\* C10: on a route with a fileUpload spec, an uploaded file over the size limit
\* of its field, or of a MIME type outside its field's allow-list, causes a 422
\* whose ErrorDetail names the field (or "file"), and no middleware, validation
\* or handler runs.
C10_OffendingFileRejected ==
    \A i \in 1..Len(req.files) :
        (/\ route.fileUpload.kind # "none"
         /\ pc # "upload"
         /\ Offending(route.fileUpload, req.files[i])) =>
            /\ invoked = <<>>
            /\ Len(wire) = 1
            /\ wire[1].via = "upload"
            /\ wire[1].status = 422
            /\ wire[1].body.error.l[1].field \in {req.files[i].fieldname, "file"}

\* The inputs other than the query satisfy their schemas
OthersValid ==
    \A n \in Declared \ {"query"} : DeclaredFieldsValid(n) /\ ~SuppliesExtra(n)

\* The literal a query field arrives as, and the value its declared type gives it
CoercionCase(declared, literal, value) ==
    (/\ nmw = 0
     /\ route.query.present
     /\ route.query.shape["a"] = declared
     /\ req.query = Obj(Str(literal), Undefined)
     /\ OthersValid
     /\ pc = "done") =>
        /\ HandlerStage \in InvokedSet
        /\ delivered.set
        /\ delivered.query["a"] = value

\* C11: a query field declared number that arrives as the string "42" is
\* delivered to the handler as the number 42, and one declared boolean that
\* arrives as "true" or "false" is delivered as true or false.
C11_QueryCoercion ==
    /\ CoercionCase("number", "42", Num("42"))
    /\ CoercionCase("boolean", "true", Bool("true"))
    /\ CoercionCase("boolean", "false", Bool("false"))

C11_Witness ==
    /\ pc = "done"
    /\ route.query.shape["a"] = "boolean"
    /\ req.query = Obj(Str("false"), Undefined)
    /\ delivered.set
    /\ delivered.query["a"] = Bool("false")

\* C12: whatever map CreateResponses was given, one with a 422 entry of its own
\* included, the 422 entry of the route's responses is the fixed validation-error
\* envelope schema, whose error list is mandatory, and never the caller's schema.
C12_Fixed422 ==
    /\ 422 \in DOMAIN route.responses
    /\ route.responses[422] = errorUnifiedResponseSchema
    /\ \A e \in RespondEntries :
           (e.callStatus = 422 /\ e.status = 422) =>
               e.callPayload.k = "list" /\ e.body.error = e.callPayload

C12_Witness ==
    /\ 422 \in DOMAIN inputMap
    /\ ~inputMap[422].marker
    /\ route.responses[422] = errorUnifiedResponseSchema
    /\ \E e \in RespondEntries :
           e.callStatus = 422 /\ e.callPayload.k = "obj" /\ e.status = 500

\* respond accepts the call: the status is declared and the constructed
\* envelope passes the schema declared for it
Accepted(status, payload) ==
    /\ status \in DOMAIN route.responses
    /\ safeParse(route.responses[status], Envelope(status, payload)).success

\* C14: whenever respond(204, payload) is accepted on a route that declares 204,
\* the response is written with status 204 and no body, from the handler as
\* from a middleware.
C14_NoContentHasNoBody ==
    \A k \in 1..Len(wire) :
        (wire[k].callStatus = 204 /\ Accepted(204, wire[k].callPayload)) =>
            /\ wire[k].status = 204
            /\ wire[k].body = NoBody

\* The responses the pipeline itself wrote (not a middleware's own res.json)
PipelineEntries == {wire[k] : k \in {j \in 1..Len(wire) : wire[j].via # "json"}}

\* C15: no response body written by the pipeline, on any path, holds both a
\* populated data field and a populated error field.
C15_DataXorError ==
    \A e \in PipelineEntries : ~(Populated(e.body.data) /\ Populated(e.body.error))

C15_Witness ==
    /\ \E e \in PipelineEntries : e.via = "upload" /\ e.status = 422 /\ Populated(e.body.error)
    /\ pc = "done"

\* C16: every 422 response body has the shape { data: null, error: [ErrorDetail, ...] },
\* whether it comes from input validation, from the upload stage or from a
\* call respond(422, errors).
C16_Shape422 ==
    \A e \in PipelineEntries :
        e.status = 422 =>
            /\ e.body.raw = "json"
            /\ e.body.data = NullVal
            /\ e.body.error.k = "list"

-----------------------------------------------------------------------------
(* The response of the server as the client demultiplexes it *)

\* callApi has run on from the response of the server of this behaviour
ClientReceived == adapter \in Adapters /\ pc \in {"handling", "finished"} /\ wire # <<>>

\* C13: for every declared (status, schema) pair other than 204 and 422, a
\* payload that validates against the schema and is passed to respond produces
\* the wire body {"data": payload}, and the client's handler for that status
\* receives data deep-equal to the payload.
C13_RoundTrip ==
    (/\ ClientReceived
     /\ wire[1].via = "respond"
     /\ wire[1].callStatus \notin {204, 422}
     /\ Accepted(wire[1].callStatus, wire[1].callPayload)) =>
        /\ wire[1].status = wire[1].callStatus
        /\ wire[1].body.data = wire[1].callPayload
        /\ ~Populated(wire[1].body.error)
        /\ handlerCalls = <<Invoke(wire[1].callStatus, wire[1].callPayload, Absent)>>

-----------------------------------------------------------------------------
(* callApi *)

\* The adapter resolved with a status the route declares
DeclaredStatus ==
    /\ adapterResponse.settled = "resolved"
    /\ adapterResponse.status \in DOMAIN route.responses

\* C17: when the transport returns a status that the route declares, callApi
\* invokes the handler keyed by that status exactly once and no other handler,
\* and the result of the call is what that handler returns or throws.
C17_ExactlyTheStatusHandler ==
    DeclaredStatus =>
        /\ Len(handlerCalls) = 1
        /\ handlerCalls[1].key = adapterResponse.status
        /\ pc = "finished" =>
               result \in {Returned(adapterResponse.status),
                           Threw(adapterResponse.status, "thrown by the handler")}

\* C18: when the transport adapter rejects, or resolves with a status that the
\* route's responses map does not declare, callApi itself throws (a 'Network
\* error', an 'unhandled status code' error) and no handler of the caller's map
\* is invoked.
C18_TransportFailureFailsTheCall ==
    /\ adapterResponse.settled = "rejected" =>
           /\ handlerCalls = <<>>
           /\ pc = "finished"
           /\ result = Threw(0, "Network error")
    /\ (adapterResponse.settled = "resolved" /\ ~DeclaredStatus) =>
           /\ handlerCalls = <<>>
           /\ pc = "finished"
           /\ result = Threw(0, "Received unhandled status code")

C18_Witness ==
    /\ adapterResponse.settled = "resolved"
    /\ adapterResponse.status = 500
    /\ 500 \notin DOMAIN route.responses
    /\ adapterResponse.body.raw = "json"
    /\ result.kind = "threw"

\* The name a placeholder at the head of s has: the symbols up to the next "/"
RECURSIVE NameAt(_)
NameAt(s) == IF s = <<>> \/ s[1] \in {"/", ":"} THEN <<>> ELSE <<s[1]>> \o NameAt(Tail(s))

\* The names of the :name placeholders of a path
PlaceholdersOf(path) ==
    {NameAt(SubSeq(path, i + 1, Len(path))) : i \in {j \in 1..Len(path) : path[j] = ":"}}

\* The placeholders of route.path for which callData.params has no value
MissingParams ==
    {n \in PlaceholdersOf(call.path) :
        ~\E k \in 1..Len(call.params) :
            call.params[k].key = n /\ call.params[k].value.t # "undefined"}

\* C19: if the route's path has a :name placeholder for which the call supplies
\* no value in params, the call fails with an error before any request is
\* handed to the transport adapter.
C19_MissingParamFailsBeforeRequest ==
    MissingParams # {} =>
        /\ ~request.sent
        /\ pc # "call" => (pc = "finished" /\ result.kind = "threw")

DefaultHeader(h) == IF h = "Content-Type" THEN "application/json" ELSE Unset

\* C20: for every header name, the value sent with a call is the per-call value
\* if one is given, otherwise the persistent client-level value if one is set,
\* otherwise the built-in default (Content-Type: application/json).
C20_HeaderPrecedence ==
    request.sent =>
        \A h \in HeaderNames :
            request.headers[h] =
                IF call.headers[h] # Unset THEN call.headers[h]
                ELSE IF call.persistentHeaders[h] # Unset THEN call.persistentHeaders[h]
                ELSE DefaultHeader(h)

-----------------------------------------------------------------------------
(* Order of the chain *)

\* Middleware i itself called next: the chain went past it and not through the
\* catch of its wrapper
CalledNext(i) == i < mwIdx /\ ~\E t \in thrown : t.by = MwStage(i)

\* C24: for every request, each middleware of the chain is invoked at most once
\* and in declared array order, middleware i+1 is invoked only after middleware i
\* has called next, and the handler is invoked at most once.
C24_OnceInOrderAfterNext ==
    /\ \A j, k \in 1..Len(invoked) : j < k =>
           /\ invoked[j] # invoked[k]
           /\ invoked[j].kind # "handler"
           /\ (invoked[j].kind = "mw" /\ invoked[k].kind = "mw") => invoked[j].idx < invoked[k].idx
    /\ \A i \in 1..MaxMw : MwStage(i + 1) \in InvokedSet => CalledNext(i)

\* The closure has parsed the inputs: they went to the handler or were answered
\* with the 422 of the catch block
ValidationRan ==
    \/ delivered.set
    \/ \E k \in 1..Len(wire) : wire[k].via = "catch" /\ wire[k].by = PipelineStage

Validation422s ==
    {k \in 1..Len(wire) : wire[k].via = "catch" /\ wire[k].by = PipelineStage /\ wire[k].status = 422}

\* C28: input validation starts only after every middleware of the chain has
\* called next; on a request with invalid input on which a middleware
\* short-circuits the response is the middleware's and never a 422, and no 422
\* of input validation is written before all middlewares have run.
C28_ValidationAfterTheChain ==
    /\ ValidationRan => \A i \in 1..nmw : CalledNext(i)
    /\ Validation422s # {} => \A i \in 1..nmw : MwStage(i) \in InvokedSet
    /\ \A i \in returned :
           /\ Validation422s = {}
           /\ WrittenBy(i) # {} => (Len(wire) = 1 /\ wire[1].by = MwStage(i))

\* definition.ts: the methods whose routes may declare a body
MethodsWithBody == {"POST", "PUT", "PATCH", "DELETE"}

\* C29: for a route of any body-permitting method (POST, PUT, PATCH, DELETE) that
\* declares a body schema, a request whose body violates that schema is answered
\* with 422 and the handler is not invoked.
C29_InvalidBodyIs422 ==
    (route.method \in MethodsWithBody /\ HasIssues("body")) =>
        /\ HandlerStage \notin InvokedSet
        /\ (pc = "done" /\ nmw = 0) => (Len(wire) = 1 /\ wire[1].status = 422)

\* The payload carries a property that the schema declared for the status does
\* not declare, at the top level of an object or inside an element of an array
CarriesUndeclared(responseSchema, payload) ==
    /\ responseSchema.envelope = "success"
    /\ ~responseSchema.any
    /\ IF responseSchema.schema.array
       THEN /\ payload.k = "objs"
            /\ \E i \in 1..Len(payload.l) : ExtraKeys(responseSchema.schema, payload.l[i]) # {}
       ELSE /\ payload.k = "obj"
            /\ ExtraKeys(responseSchema.schema, payload.o) # {}

\* C30: a property that the schema does not declare, at any nesting depth of a
\* body, query, params or response payload (inside array elements included), is
\* never silently dropped: an input that carries one is answered with 422 and
\* does not reach the handler, a response payload that carries one goes out as 500.
C30_NoSilentDrop ==
    /\ (\E n \in Declared : SuppliesExtra(n)) =>
           /\ HandlerStage \notin InvokedSet
           /\ \A k \in 1..Len(wire) : wire[k].by = PipelineStage => wire[k].status = 422
    /\ \A e \in RespondEntries :
           (/\ e.callStatus \in DOMAIN route.responses
            /\ CarriesUndeclared(route.responses[e.callStatus], e.callPayload)) =>
               e.status = 500

-----------------------------------------------------------------------------
(* The two adapters *)

\* What the closure of the other adapter makes of the inputs of this request
OtherParse == IF adapter = "express" THEN honoParse(route, req) ELSE expressParse(route, req)

\* What respond of the other adapter sends for the call respond(s, p)
OtherResponds(s, p) ==
    IF adapter = "express"
    THEN {IF o.threw THEN catchBlock(route.responses, NullBodyStatus) ELSE o.response :
             o \in honoJson(honoRespond(route.responses, s, p))}
    ELSE {ExpressJson(respond(route.responses, s, p))}

\* The responses of the handler's respond calls, sent or held for sending
HandlerRespondEntries ==
    {e \in RespondEntries \cup {honoResponse} : e.via = "respond" /\ e.by = HandlerStage}

\* C26: for the same contract, handlers and middlewares, the Express adapter and
\* the Hono adapter answer every request with the same status and the same JSON
\* body: the closure of the other adapter accepts or rejects the same inputs
\* with the same 422, and its respond sends the same response for the same call.
C26_AdaptersAgree ==
    /\ (nmw = 0 /\ adapter \in Adapters /\ ValidationRan) =>
           /\ delivered.set = OtherParse.ok
           /\ ~delivered.set =>
                  Response(wire[1].status, wire[1].body) =
                      ExpressJson(catchBlock(route.responses, ZodError(OtherParse.issues)))
    /\ \A e \in HandlerRespondEntries :
           OtherResponds(e.callStatus, e.callPayload) = {Response(e.status, e.body)}

\* The invocations of middleware i of the request, as positions of `invoked`
InvocationsOf(i) == {k \in 1..Len(invoked) : invoked[k] = MwStage(i)}

\* C27: a middleware that declares four parameters is registered as it was given
\* and receives the route's { domain, routeKey } on every invocation; one that
\* declares fewer is wrapped and is invoked with (request, response, next) only
C27_EndpointInfoByArity ==
    \A i \in 1..nmw :
        IF mws[i].length = 4
        THEN /\ ~RegisterHandlers(mws)[i].wrapped
             /\ \A k \in InvocationsOf(i) :
                    received[k].argc = 4 /\ received[k].endpointInfo = EndpointInfo
        ELSE /\ RegisterHandlers(mws)[i].wrapped
             /\ \A k \in InvocationsOf(i) :
                    received[k].argc = 3 /\ received[k].endpointInfo = NoInfo

\* A chain with a three-parameter and a four-parameter middleware, both invoked
C27_Witness ==
    /\ \E i, j \in 1..nmw :
          /\ mws[i].length = 3 /\ InvocationsOf(i) # {}
          /\ mws[j].length = 4 /\ InvocationsOf(j) # {}
    /\ HandlerStage \in InvokedSet

\* The values stored into the request's ctx before invocation k: one by each
\* storing middleware invoked earlier
StoredBefore(k) ==
    {CtxEntry(1, j) : j \in {i \in 1..nmw : mws[i].stores /\ \E m \in InvocationsOf(i) : m < k}}

\* C22: whatever a middleware stored in the request's ctx is in the ctx that
\* every later middleware of the chain and the handler of the request receive
C22_CtxVisibleDownstream ==
    \A k \in 1..Len(invoked) : StoredBefore(k) \subseteq received[k].ctx

\* C23: with two requests in flight on the same route, every value that the
\* middlewares and the handler of one request find in ctx was stored by a
\* middleware of that request, and the ctx of a request only ever holds values
\* stored by its own middlewares
C23_CtxOwnedByItsRequest ==
    /\ \A k \in 1..Len(received) : \A e \in received[k].ctx : e.of = 1
    /\ \A e \in other.seen : e.of = 2
    /\ \A r \in ReqIds : \A e \in ReqCtx(r) : e.of = r

\* Both requests are under way, each has stored into its ctx and has been read
C23_Witness ==
    /\ other.inFlight /\ other.stage <= nmw /\ other.seen # {}
    /\ pc = "inmw"
    /\ \E k \in 1..Len(received) : received[k].ctx # {}
    /\ ReqCtx(1) # {} /\ ReqCtx(2) # {}

\* C25: no middleware and no handler of the request is invoked while another
\* middleware of the request is executing, that is, has got control back from
\* its next() call and has not finished
C25_NoOverlapWithinARequest ==
    \A k \in 1..Len(received) : received[k].executing = {}

\* A step of the client that issues a request
IssuesRequest == adapter = "fetch" /\ pc = "call" /\ pc' = "awaiting"

\* C21: whatever setHeader, removeHeader and clearHeaders did before a call, the
\* call sends the persistent headers as they stand when it is issued: a header
\* that is set goes out with its value unless the call gives that header
\* itself, and a header that is not set (never set, removed or cleared) does
\* not go out with a persistent value
C21_CallsSendThePersistentHeaders ==
    [][IssuesRequest =>
         \A h \in HeaderNames :
            /\ (persistentHeaders[h] # Unset /\ call.headers[h] = Unset)
                   => request'.headers[h] = persistentHeaders[h]
            /\ persistentHeaders[h] = Unset
                   => request'.headers[h] \notin PersistentHeaderValues \ {Unset}]_vars

\* C31: a path parameter declared number that arrives as the string "42" is
\* delivered to the handler as the number 42, as a query field is, on both
\* adapters
C31_ParamCoercion ==
    (/\ nmw = 0
     /\ route.params.present
     /\ route.params.shape["a"] = "number"
     /\ req.params = Obj(Str("42"), Undefined)
     /\ \A n \in Declared \ {"param"} : DeclaredFieldsValid(n) /\ ~SuppliesExtra(n)
     /\ pc = "done") =>
        /\ HandlerStage \in InvokedSet
        /\ delivered.set
        /\ delivered.params["a"] = Num("42")

\* prefix + path with a single leading slash and duplicate slashes collapsed
CollapsedMountPath == collapseSlashes(<<"/">> \o call.prefix \o call.path)

\* C32: for a route path without placeholders, the path of the URL the client
\* requests is the path at which the server mounts the route, and that is
\* prefix + path with duplicate slashes collapsed
C32_ClientPathIsMountPath ==
    (adapter = "fetch" /\ request.sent /\ PlaceholdersOf(call.path) = {}) =>
        /\ request.url = fullPath(call.prefix, call.path)
        /\ fullPath(call.prefix, call.path) = CollapsedMountPath

\* A path with every :name placeholder replaced by the value of the parameter
\* of exactly that name
RECURSIVE Substituted(_, _)
Substituted(path, params) ==
    IF path = <<>> THEN <<>>
    ELSE IF path[1] = ":"
    THEN LET name == NameAt(Tail(path))
             rest == SubSeq(path, 2 + Len(name), Len(path))
             given == {k \in 1..Len(params) :
                          params[k].key = name /\ params[k].value.t # "undefined"}
         IN (IF given # {} THEN <<params[CHOOSE k \in given : TRUE].value.v>>
             ELSE <<":">> \o name) \o Substituted(rest, params)
    ELSE <<path[1]>> \o Substituted(Tail(path), params)

\* C38: the URL of a call has every :name placeholder of the route path replaced
\* by the value of the parameter of exactly that name, also when one name is a
\* prefix of another, when a placeholder occurs twice, and in whatever order the
\* params are given
C38_EveryPlaceholderByItsOwnParam ==
    (adapter = "fetch" /\ request.sent /\ call.prefix = NoPrefix /\ MissingParams = {}) =>
        request.url = Substituted(call.path, call.params)

\* The statuses the route's author declared with a type marker
MarkerStatuses == {s \in DOMAIN inputMap \ {422} : inputMap[s].marker}

\* C33: for a status declared with a type marker, respond(status, payload)
\* succeeds whatever the payload: the response has that status and the body
\* { data: payload }
C33_TypeMarkerPassesThrough ==
    \A e \in RespondEntries :
        e.callStatus \in MarkerStatuses =>
            /\ e.status = e.callStatus
            /\ e.body.data = e.callPayload
            /\ e.body.error.k = "absent"

\* C34: every callback a middleware registered with res.onResponse is called
\* when the response of the request is produced through respond, by the handler
\* or by a later middleware, and the status it receives is the status written
\* to the wire.
C34_CallbacksReceiveTheWireStatus ==
    \A e \in RespondEntries : \A k \in DOMAIN responseCallbacks :
        (e.by = HandlerStage \/ e.by.idx > responseCallbacks[k].idx)
            => \E n \in DOMAIN notified :
                  notified[n] = Notified(responseCallbacks[k].idx, e.status)

C36_NoExceptionEscapes == ~escaped

\* C37: when the transport returns a declared status other than 204 and 422
\* whose body is missing or not JSON, callApi does not fail: it invokes the
\* handler keyed by that status, with a result that carries the status and no
\* data.
C37_NonJsonBodyReachesTheHandler ==
    (/\ DeclaredStatus
     /\ adapterResponse.status \notin {204, 422}
     /\ ~adapterResponse.json)
        => /\ Len(handlerCalls) = 1
           /\ handlerCalls[1] = Invoke(adapterResponse.status, Absent, Absent)
           /\ result.kind = "threw" => result.by = adapterResponse.status

\* C39: for the same route, status and payload, res.respond called from a
\* middleware and res.respond called from the handler write the same status and
\* the same body, in the success case, in the undeclared-status case and in the
\* schema-mismatch case: whatever one of them wrote, the other would have
\* written for the same call.
C39_MiddlewareRespondIsHandlerRespond ==
    adapter = "express" =>
        \A e \in RespondEntries :
            /\ Response(e.status, e.body)
                  = ExpressJson(respond(route.responses, e.callStatus, e.callPayload))
            /\ Response(e.status, e.body)
                  = ExpressJson(createRespondFunction(route.responses, e.callStatus, e.callPayload))

\* C40: every route of the contract that has a handler is registered with the
\* host framework under its method and full path, for every method of HttpMethod
\* (GET, POST, PUT, PATCH, DELETE, HEAD, OPTIONS): a request that matches the
\* route reaches the pipeline and is not answered by the framework's not-found.
C40_EveryMethodIsRegistered ==
    (adapter \in Adapters /\ pc # "request") =>
        \A k \in DOMAIN wire : wire[k].via # "unrouted"

====
